---- MODULE Spec2Model ----
(***************************************************************************)
(* Model of the flight-cone backend: the index-keyed binary-heap priority  *)
(* queue (pqueue.rs) and the reachability search over an elevation grid    *)
(* (search.rs).                                                            *)
(*                                                                         *)
(* Numbers.  The code computes in f32.  The model computes in fixed point: *)
(* grid distances are integers in units of 1/L2Scale cell, cumulative      *)
(* distances and heights are integers in units of 1/L2Scale metre, and     *)
(* every f32 operation that rounds (sqrt, division) rounds to the nearest  *)
(* unit here.  Heap indices are 0-based as in the code; At(h, i) reads the *)
(* i-th slot of the 1-based TLA+ sequence.                                 *)
(***************************************************************************)
EXTENDS Integers, Sequences, FiniteSets, TLC

\* ------------------------------------------------------------------ bounds
Rows == 3
Cols == 3
MaxWalls == 2
MaxPQKey == 3
MaxPriority == 3
MaxQueue == 4

\* --------------------------------------------------------------- constants
\* FakeHashMapPos::MAX, the "absent" sentinel of the dense positions map.
Absent == 65535
\* Width of FakeHashMapPos (u16): stored positions are taken modulo this.
PosModulus == 65536
\* Option::None for a node's reference and for the pop history.
None == -1
\* Resolution of the fixed-point rendering of f32 grid distances.
L2Scale == 100

NumCells == Rows * Cols
Keys == 0 .. (NumCells - 1)

VARIABLES
    heap,        \* PriorityQueue.heap: sequence of [key, item]
    positions,   \* PriorityQueue.positions: key -> heap index or Absent
    prevPop,     \* history: priority of the pop before the last one
    lastPop,     \* history: priority of the last pop (None after push/update)
    explored,    \* SearchState.explored: one Node per cell
    heights,     \* SearchConfig.grid.heights, metres
    query,       \* SearchConfig.query and grid.cell_size
    start,       \* the start cell handed to search
    pc,          \* position in search: "start", "pop", "relax", "done"
    current,     \* first.key of the running loop iteration
    pending,     \* neighbours of current not yet visited by the for loop
    commits,     \* history: node records written by the last step
    proposals,   \* history: the put_or_update calls of the last step
    popped,      \* history: the entries the search popped, in order
    result,      \* what reindex returned: explored, shape, origin, start_ix
    pushCount,   \* history: how often each cell was pushed into the queue
    iterator,    \* the PrefixTrieMaxDistanceIterator of a text search
    yielded,     \* history: the keys the iterator returned, with their round
    tile,        \* an .hgt file's values and what loading it produced
    request,     \* a flight-cone request and what its handler did with it
    radix,       \* RadixHeap: top, buckets, positions, len; pop history
    line         \* a call of is_line_intersecting: its arguments and its answer

pqvars == <<heap, positions, prevPop, lastPop>>
searchvars == <<explored, heights, query, start, pc, current, pending, commits,
                proposals, popped,
                result, pushCount, iterator, yielded,
                 tile, request, radix, line>>
textvars == <<iterator, yielded>>
servicevars == <<tile, request, radix, line>>
vars == <<heap, positions, prevPop, lastPop, explored, heights, query, start, pc,
          current, pending, commits, proposals, popped, result, pushCount, iterator,
          yielded,
                 tile, request, radix, line>>

\* ------------------------------------------------------- priority queue
At(h, i) == h[i + 1]

Swap(h, i, j) == [h EXCEPT ![i + 1] = h[j + 1], ![j + 1] = h[i + 1]]

\* FakeHashMapForGrid::insert / set: the index is stored as u16.
MapSet(pos, key, value) == [pos EXCEPT ![key] = value % PosModulus]

\* FakeHashMapForGrid::remove_entry
MapRemove(pos, key) == [pos EXCEPT ![key] = Absent]

\* FakeHashMapForGrid::contains_key
MapContains(pos, key) == pos[key] # Absent

\* PriorityQueue::contains_key
ContainsKey(q, key) == MapContains(q.positions, key)

\* A sift-up that moves the entries but records only the final position of
\* the item, not the new positions of the parents it passes.
RECURSIVE SiftUpItemOnly(_, _)
SiftUpItemOnly(q, ix) ==
    LET key == At(q.heap, ix).key
        priority == At(q.heap, ix).item
        parent_ix == (ix - 1) \div 2
    IN  IF ix > 0 /\ ~(priority >= At(q.heap, parent_ix).item)
        THEN SiftUpItemOnly([heap |-> Swap(q.heap, ix, parent_ix),
                             positions |-> q.positions],
                            parent_ix)
        ELSE [heap |-> q.heap, positions |-> MapSet(q.positions, key, ix)]

\* PriorityQueue::siftup: the item at ix moves up while it is strictly
\* smaller than its parent; the moved parent's position is recorded at each
\* swap and the item's own position at the end.
RECURSIVE SiftUp(_, _)
SiftUp(q, ix) ==
    LET key == At(q.heap, ix).key
        priority == At(q.heap, ix).item
        parent_ix == (ix - 1) \div 2
    IN  IF ix > 0 /\ ~(priority >= At(q.heap, parent_ix).item)
        THEN SiftUp([heap |-> Swap(q.heap, ix, parent_ix),
                     positions |-> MapSet(q.positions, At(q.heap, parent_ix).key, ix)],
                    parent_ix)
        ELSE [heap |-> q.heap, positions |-> MapSet(q.positions, key, ix)]

\* A sift-down that always descends into the left child.
RECURSIVE SiftDownLeftOnly(_, _)
SiftDownLeftOnly(q, ix) ==
    LET end_ix == Len(q.heap)
        newitem_priority == At(q.heap, ix).item
        newitem_key == At(q.heap, ix).key
        child_ix == 2 * ix + 1
    IN  IF child_ix < end_ix /\ ~(At(q.heap, child_ix).item >= newitem_priority)
        THEN SiftDownLeftOnly([heap |-> Swap(q.heap, ix, child_ix),
                       positions |-> MapSet(q.positions, At(q.heap, child_ix).key, ix)],
                      child_ix)
        ELSE [heap |-> q.heap, positions |-> MapSet(q.positions, newitem_key, ix)]

\* PriorityQueue::siftdown: the item at ix moves down below its smaller
\* child while that child is strictly smaller.
RECURSIVE SiftDown(_, _)
SiftDown(q, ix) ==
    LET end_ix == Len(q.heap)
        newitem_priority == At(q.heap, ix).item
        newitem_key == At(q.heap, ix).key
        left_ix == 2 * ix + 1
        right_ix == left_ix + 1
        child_ix == IF right_ix < end_ix
                       /\ At(q.heap, right_ix).item < At(q.heap, left_ix).item
                    THEN right_ix ELSE left_ix
    IN  IF left_ix < end_ix /\ ~(At(q.heap, child_ix).item >= newitem_priority)
        THEN SiftDown([heap |-> Swap(q.heap, ix, child_ix),
                       positions |-> MapSet(q.positions, At(q.heap, child_ix).key, ix)],
                      child_ix)
        ELSE [heap |-> q.heap, positions |-> MapSet(q.positions, newitem_key, ix)]

\* PriorityQueue::push
Push(q, key, item) ==
    LET h == Append(q.heap, [key |-> key, item |-> item])
        ix == Len(h) - 1
    IN  SiftUp([heap |-> h, positions |-> MapSet(q.positions, key, ix)], ix)

\* PriorityQueue::update_priority (key present)
UpdatePriority(q, key, priority) ==
    LET ix == q.positions[key]
        old_priority == At(q.heap, ix).item
        q1 == [heap |-> [q.heap EXCEPT ![ix + 1].item = priority],
               positions |-> q.positions]
    IN  IF old_priority > priority THEN SiftUp(q1, ix) ELSE SiftDown(q1, ix)

\* update_priority_if_less returning None only for a larger priority, so
\* that an equal priority is written and Some(..) returned.
UpdatePriorityIfNotGreater(q, key, priority) ==
    LET ix == q.positions[key]
        old_priority == At(q.heap, ix).item
    IN  IF old_priority < priority
        THEN [some |-> FALSE, q |-> q]
        ELSE [some |-> TRUE,
              q |-> SiftUp([heap |-> [q.heap EXCEPT ![ix + 1].item = priority],
                            positions |-> q.positions], ix)]

\* PriorityQueue::update_priority_if_less(_unsafe) (key present): the
\* result says whether Some(..) was returned, and carries the queue.
UpdatePriorityIfLess(q, key, priority) ==
    LET ix == q.positions[key]
        old_priority == At(q.heap, ix).item
    IN  IF old_priority <= priority
        THEN [some |-> FALSE, q |-> q]
        ELSE [some |-> TRUE,
              q |-> SiftUp([heap |-> [q.heap EXCEPT ![ix + 1].item = priority],
                            positions |-> q.positions], ix)]

\* PriorityQueue::pop on a non-empty queue: the popped element and the queue.
Pop(q) ==
    LET len == Len(q.heap)
        swapped == Swap(q.heap, 0, len - 1)
        element == At(swapped, len - 1)
        h == SubSeq(swapped, 1, len - 1)
        removed == MapRemove(q.positions, element.key)
    IN  IF len = 1
        THEN [element |-> element, q |-> [heap |-> h, positions |-> removed]]
        ELSE [element |-> element,
              q |-> SiftDown([heap |-> h,
                              positions |-> MapSet(removed, At(h, 0).key, 0)], 0)]

Queue == [heap |-> heap, positions |-> positions]

\* ------------------------------------------- queue specification (SpecPQ)
PQKeys == 0 .. MaxPQKey
Priorities == 0 .. MaxPriority

PQInit ==
    /\ heap = <<>>
    /\ positions = [k \in Keys |-> Absent]
    /\ prevPop = None
    /\ lastPop = None
    /\ explored = <<>>
    /\ heights = <<>>
    /\ query = <<>>
    /\ start = None
    /\ pc = "queue"
    /\ current = None
    /\ pending = <<>>
    /\ commits = <<>>
    /\ proposals = <<>>
    /\ popped = <<>>
    /\ result = <<>>
    /\ pushCount = <<>>
    /\ iterator = <<>>
    /\ yielded = <<>>
    /\ tile = <<>>
    /\ request = <<>>
    /\ radix = <<>>
    /\ line = <<>>

PQPush ==
    \E key \in PQKeys, item \in Priorities :
        /\ ~ContainsKey(Queue, key)
        /\ Len(heap) < MaxQueue
        /\ LET q == Push(Queue, key, item)
           IN  heap' = q.heap /\ positions' = q.positions
        /\ prevPop' = None /\ lastPop' = None
        /\ UNCHANGED searchvars

PQUpdatePriority ==
    \E key \in PQKeys, priority \in Priorities :
        /\ ContainsKey(Queue, key)
        /\ LET q == UpdatePriority(Queue, key, priority)
           IN  heap' = q.heap /\ positions' = q.positions
        /\ prevPop' = None /\ lastPop' = None
        /\ UNCHANGED searchvars

PQUpdatePriorityIfLess ==
    \E key \in PQKeys, priority \in Priorities :
        /\ ContainsKey(Queue, key)
        /\ LET r == UpdatePriorityIfLess(Queue, key, priority)
           IN  heap' = r.q.heap /\ positions' = r.q.positions
        /\ prevPop' = None /\ lastPop' = None
        /\ UNCHANGED searchvars

PQPop ==
    /\ Len(heap) > 0
    /\ LET r == Pop(Queue)
       IN  /\ heap' = r.q.heap /\ positions' = r.q.positions
           /\ prevPop' = lastPop
           /\ lastPop' = r.element.item
    /\ UNCHANGED searchvars

PQNext == PQPush \/ PQUpdatePriority \/ PQUpdatePriorityIfLess \/ PQPop

SpecPQ == PQInit /\ [][PQNext]_vars

\* C1: the priorities returned by successive pops with no push or update in
\* between never decrease, and no pop leaves behind an entry of smaller
\* priority than the one it returned (so pushing distinct priorities in any
\* order and draining the queue yields them in ascending order).
C1_PopNonDecreasing ==
    /\ (prevPop # None /\ lastPop # None) => prevPop <= lastPop
    /\ lastPop # None => \A i \in 1 .. Len(heap) : heap[i].item >= lastPop

\* Two pops in a row returned different priorities and entries remain.
C1_Witness == prevPop # None /\ lastPop # None /\ prevPop < lastPop /\ Len(heap) > 0

\* ------------------------------------------------------------ arithmetic
Max(a, b) == IF a >= b THEN a ELSE b
Min(a, b) == IF a <= b THEN a ELSE b
Abs(a) == IF a >= 0 THEN a ELSE 0 - a

\* Division rounded to the nearest integer (b > 0), as f32 division rounds.
RoundDiv(a, b) == (2 * a + b) \div (2 * b)

\* Largest r with r * r <= n, by bisection on lo * lo <= n < hi * hi.
RECURSIVE SqrtBetween(_, _, _)
SqrtBetween(n, lo, hi) ==
    IF hi - lo <= 1 THEN lo
    ELSE LET mid == (lo + hi) \div 2
         IN  IF mid * mid <= n THEN SqrtBetween(n, mid, hi) ELSE SqrtBetween(n, lo, mid)

\* The upper end stays below the square root of the largest 32-bit integer.
FloorSqrt(n) == SqrtBetween(n, 0, Min(n + 1, 46341))

\* The integer nearest to the square root of n, given its floor r.
NearestRoot(n, r) == IF n - r * r > r THEN r + 1 ELSE r

\* f32::sqrt: the nearest representable value.
RoundSqrt(n) == NearestRoot(n, FloorSqrt(n))

\* The least integer not below the square root of n, given its floor r.
CeilRoot(n, r) == IF r * r = n THEN r ELSE r + 1

\* f32::ceil of a square root, as usize.
CeilSqrt(n) == CeilRoot(n, FloorSqrt(n))

\* ---------------------------------------------------------------- grid
\* to_ix: the (row, column) of a flat offset.
RowOf(ix) == ix \div Cols
ColOf(ix) == ix % Cols

\* GridIx::from_grid
FromGrid(r, c) == r * Cols + c

\* Node::new
NewNode == [height |-> 0, reference |-> None, distance |-> 0,
            reachable |-> FALSE, explored |-> FALSE]

\* Ground height of a cell in height units (heights[..] as f32).
GridHeight(ix) == heights[ix] * L2Scale

\* get_neighbor_indices: up, left, down, right, those inside the grid.
GetNeighborIndices(ix) ==
    (IF RowOf(ix) > 0 THEN <<FromGrid(RowOf(ix) - 1, ColOf(ix))>> ELSE <<>>)
    \o (IF ColOf(ix) > 0 THEN <<FromGrid(RowOf(ix), ColOf(ix) - 1)>> ELSE <<>>)
    \o (IF RowOf(ix) < Rows - 1 THEN <<FromGrid(RowOf(ix) + 1, ColOf(ix))>> ELSE <<>>)
    \o (IF ColOf(ix) < Cols - 1 THEN <<FromGrid(RowOf(ix), ColOf(ix) + 1)>> ELSE <<>>)

\* Squared grid distance, the radicand of l2_distance.
Dist2(a, b) == (RowOf(a) - RowOf(b)) * (RowOf(a) - RowOf(b))
               + (ColOf(a) - ColOf(b)) * (ColOf(a) - ColOf(b))

\* l2_distance, in 1/L2Scale cells.
L2Distance(a, b) == RoundSqrt(Dist2(a, b) * L2Scale * L2Scale)

\* is_straight
IsStraight(a, b) == RowOf(a) = RowOf(b) \/ ColOf(a) = ColOf(b)

\* is_in_line
IsInLine(point, s, e) ==
    IF RowOf(point) = RowOf(s) /\ RowOf(point) = RowOf(e)
    THEN ColOf(point) >= Min(ColOf(s), ColOf(e)) /\ ColOf(point) <= Max(ColOf(s), ColOf(e))
    ELSE IF ColOf(point) = ColOf(s) /\ ColOf(point) = ColOf(e)
    THEN RowOf(point) >= Min(RowOf(s), RowOf(e)) /\ RowOf(point) <= Max(RowOf(s), RowOf(e))
    ELSE FALSE

\* ------------------------------------------------------- effective glide
\* An EffectiveGlide: infinite, or the ratio num / den.
InfiniteGlide == [infinite |-> TRUE, num |-> 0, den |-> 1]

\* The tail of get_effective_glide_ratio: the ratio at an effective speed.
GlideAtSpeed(effective_speed, trim_speed, glide_num, glide_den) ==
    IF effective_speed <= 0 THEN InfiniteGlide
    ELSE [infinite |-> FALSE,
          num |-> glide_num * trim_speed * L2Scale,
          den |-> glide_den * effective_speed]

\* A wind component wind_speed * c / sqrt(d2), signed as c.
WindComponent(wind_speed, c, d2) ==
    IF c >= 0 THEN RoundSqrt((wind_speed * wind_speed * c * c * L2Scale * L2Scale) \div d2)
    ELSE 0 - RoundSqrt((wind_speed * wind_speed * c * c * L2Scale * L2Scale) \div d2)

\* get_effective_glide_ratio for an effective wind angle whose sine and
\* cosine are sn / sqrt(d2) and cs / sqrt(d2).  Speeds are in 1/L2Scale m/s.
\* rs = trim_speed^2 - side_wind^2; effective_speed = sqrt(rs) + back_wind.
GetEffectiveGlideRatio(sn, cs, d2, wind_speed, trim_speed, glide_num, glide_den) ==
    IF trim_speed * trim_speed * d2 - wind_speed * wind_speed * sn * sn <= 0
    THEN InfiniteGlide
    ELSE GlideAtSpeed(
             RoundSqrt(((trim_speed * trim_speed * d2 - wind_speed * wind_speed * sn * sn)
                        * L2Scale * L2Scale) \div d2)
             + WindComponent(wind_speed, cs, d2),
             trim_speed, glide_num, glide_den)

\* get_effective_glide_ratio_from_to without the test for still air and with
\* the wind speed and the trim speed handed on in each other's place.
GlideFromToSwapped(q, from, to) ==
    LET dr == RowOf(to) - RowOf(from)
        dc == ColOf(to) - ColOf(from)
        sn == CASE q.wind_direction = 0 -> dc
                [] q.wind_direction = 1 -> 0 - dr
                [] q.wind_direction = 2 -> 0 - dc
                [] OTHER -> dr
        cs == CASE q.wind_direction = 0 -> dr
                [] q.wind_direction = 1 -> dc
                [] q.wind_direction = 2 -> 0 - dr
                [] OTHER -> 0 - dc
    IN  GetEffectiveGlideRatio(sn, cs, dr * dr + dc * dc, q.trim_speed,
                               q.wind_speed, q.glide_num, q.glide_den)

\* get_effective_glide_ratio_from_to(query, start, end).  diff = end - start,
\* angle = atan2(diff.0, diff.1), effective angle = (pi/2 - wind_direction)
\* - angle.  wind_direction is a number of quarter turns, so the sine and
\* cosine of the effective angle are +-diff.0 / L and +-diff.1 / L.
GlideFromTo(q, from, to) ==
    IF q.wind_speed = 0
    THEN [infinite |-> FALSE, num |-> q.glide_num, den |-> q.glide_den]
    ELSE LET dr == RowOf(to) - RowOf(from)
             dc == ColOf(to) - ColOf(from)
             sn == CASE q.wind_direction = 0 -> dc
                     [] q.wind_direction = 1 -> 0 - dr
                     [] q.wind_direction = 2 -> 0 - dc
                     [] OTHER -> dr
             cs == CASE q.wind_direction = 0 -> dr
                     [] q.wind_direction = 1 -> dc
                     [] q.wind_direction = 2 -> 0 - dr
                     [] OTHER -> 0 - dc
         IN  GetEffectiveGlideRatio(sn, cs, dr * dr + dc * dc, q.wind_speed,
                                    q.trim_speed, q.glide_num, q.glide_den)

\* get_effective_glide_ratio_from_to for the query of the search.
GetEffectiveGlideRatioFromTo(from, to) == GlideFromTo(query, from, to)

\* query.start_distance and query.safety_margin (metres) in model units.
StartDistance == query.start_distance * L2Scale
SafetyMargin == query.safety_margin * L2Scale

\* Height lost over a ground distance at an effective glide ratio.
HeightLoss(distance, glide) == RoundDiv(distance * glide.num, glide.den)

\* SearchConfig::get_safety_margin_at_distance
GetSafetyMarginAtDistance(distance) ==
    IF distance < StartDistance THEN 0 ELSE SafetyMargin

\* ------------------------------------------------- terrain clearance check
\* linspace(a, b, n)[i]: a + i * (b - a) / (n - 1), or a alone when n = 1.
\* For cell coordinates the rounding is that of f32_usize.
Linspace(a, b, n, i) == IF n > 1 THEN a + RoundDiv(i * (b - a), n - 1) ELSE a

\* The safety margin is_line_intersecting subtracts at a sample whose
\* cumulative distance is cur_distance, on a segment from from_distance to
\* to_distance: none when the margin is zero or the segment ends by the
\* start distance; from the start distance on when the segment straddles
\* it; everywhere otherwise.
SampleMargin(from_distance, to_distance, cur_distance) ==
    IF query.safety_margin = 0 \/ to_distance <= StartDistance THEN 0
    ELSE IF from_distance < StartDistance /\ to_distance > StartDistance
    THEN (IF cur_distance < StartDistance THEN 0 ELSE SafetyMargin)
    ELSE SafetyMargin

\* One sample of the loops of is_line_intersecting: the i-th of i_len
\* points from the node to (at to_ix) to ix, which lies distance away and
\* is reached at end_height.
SampleIntersects(to, to_ix, ix, i_len, distance, end_height, i) ==
    Linspace(to.height, end_height, i_len, i)
        - SampleMargin(to.distance, to.distance + distance,
                       Linspace(to.distance, to.distance + distance, i_len, i))
    < GridHeight(FromGrid(Linspace(RowOf(to_ix), RowOf(ix), i_len, i),
                          Linspace(ColOf(to_ix), ColOf(ix), i_len, i)))

\* The loops of is_line_intersecting over the i_len samples.
AnySampleIntersects(to, to_ix, ix, i_len, distance, end_height) ==
    \E i \in 0 .. (i_len - 1) :
        SampleIntersects(to, to_ix, ix, i_len, distance, end_height, i)

\* is_line_intersecting at a finite effective glide ratio.
LineIntersectsAt(to, to_ix, ix, glide, distance) ==
    glide.infinite
    \/ AnySampleIntersects(to, to_ix, ix, CeilSqrt(Dist2(to_ix, ix)), distance,
                           to.height - HeightLoss(distance, glide))

\* is_line_intersecting(to, ix, config): to is the node of cell to_ix.
IsLineIntersecting(ex, to_ix, ix) ==
    LineIntersectsAt(ex[to_ix], to_ix, ix, GetEffectiveGlideRatioFromTo(ix, to_ix),
                     L2Distance(to_ix, ix) * query.cell_size)

\* --------------------------------------------------------- search state
\* A search state under construction inside one step: the explored map,
\* the queue, and the histories of node writes and pushes.
\* put_or_update without the test for a queued cell: it pushes every time.
PutOrUpdateAlwaysPush(st, ix, distance) ==
    [some |-> TRUE,
     st |-> [st EXCEPT !.q = Push(st.q, ix, distance),
                       !.pushCount[ix] = @ + 1]]

\* put_or_update that hands the node record back for writing even when the
\* priority of a queued cell was not lowered.
PutOrUpdateHandsBack(st, ix, distance) ==
    IF ContainsKey(st.q, ix)
    THEN [some |-> TRUE, st |-> [st EXCEPT !.q = UpdatePriorityIfLess(st.q, ix, distance).q]]
    ELSE [some |-> TRUE,
          st |-> [st EXCEPT !.q = Push(st.q, ix, distance),
                            !.pushCount[ix] = @ + 1]]

\* put_or_update: push the cell when it is not queued, lower its priority
\* when the distance is smaller; some says whether the node record is
\* handed back for writing.
PutOrUpdate(st, ix, distance) ==
    IF ContainsKey(st.q, ix)
    THEN LET r == UpdatePriorityIfLess(st.q, ix, distance)
         IN  [some |-> r.some, st |-> [st EXCEPT !.q = r.q]]
    ELSE [some |-> TRUE,
          st |-> [st EXCEPT !.q = Push(st.q, ix, distance),
                            !.pushCount[ix] = @ + 1]]

\* The writes r.height, r.reference, r.distance, r.reachable through the
\* record handed back by put_or_update (nothing when it handed back None);
\* reachable is computed from the height as at the call sites.  via is the
\* reference the proposal was computed from.  The put_or_update call is
\* noted in proposals with what it was given and whether it handed back
\* the record.
WriteNode(put, ix, height, reference, distance, via) ==
    IF put.some
    THEN [put.st EXCEPT
              !.explored[ix].height = height,
              !.explored[ix].reference = reference,
              !.explored[ix].distance = distance,
              !.explored[ix].reachable =
                  GridHeight(ix) + GetSafetyMarginAtDistance(distance) < height,
              !.commits = Append(@, [ix |-> ix, reference |-> reference,
                                     via |-> via, distance |-> distance]),
              !.proposals = Append(@, [ix |-> ix, via |-> via, distance |-> distance,
                                       accepted |-> TRUE])]
    ELSE [put.st EXCEPT
              !.proposals = Append(@, [ix |-> ix, via |-> via, distance |-> distance,
                                       accepted |-> FALSE])]

\* The K = 0 write of update_four_neighbors.
WriteUnreachable(put, ix) ==
    IF put.some
    THEN [put.st EXCEPT
              !.explored[ix].height = 0,
              !.explored[ix].reference = None,
              !.explored[ix].distance = 0,
              !.explored[ix].reachable = FALSE,
              !.commits = Append(@, [ix |-> ix, reference |-> None,
                                     via |-> None, distance |-> 0]),
              !.proposals = Append(@, [ix |-> ix, via |-> None, distance |-> 0,
                                       accepted |-> TRUE])]
    ELSE [put.st EXCEPT
              !.proposals = Append(@, [ix |-> ix, via |-> None, distance |-> 0,
                                       accepted |-> FALSE])]

\* get_straight_line_ref stepping to the cell itself, not to the reference
\* of the node it stands on.
GetStraightLineRefOfCell(ex, ix, n_ix) ==
    IF ex[n_ix].reference # None /\ IsStraight(ex[n_ix].reference, ix)
    THEN ix
    ELSE n_ix

\* get_straight_line_ref: from the node n_ix, follow references while the
\* reference is straight with ix.
RECURSIVE GetStraightLineRef(_, _, _)
GetStraightLineRef(ex, ix, n_ix) ==
    IF ex[n_ix].reference # None /\ IsStraight(ex[n_ix].reference, ix)
    THEN GetStraightLineRef(ex, ix, ex[n_ix].reference)
    ELSE n_ix

\* ref_paths_intersection
RefPathsIntersection(ix_1, ref_1, ix_2, ref_2) ==
    IF ref_1 = ref_2 THEN ref_1
    ELSE IF ref_1 = None \/ ref_2 = None THEN None
    ELSE IF IsStraight(ix_1, ref_1) /\ IsInLine(ref_2, ix_1, ref_1) THEN ref_2
    ELSE IF IsStraight(ix_2, ref_2) /\ IsInLine(ref_1, ix_2, ref_2) THEN ref_1
    ELSE None

\* The proposal with the step's own length as the distance, the distance of
\* the reference left out.
ProposeStepDistance(st, ix, reference_ix, stored, effective_glide, distance) ==
    IF effective_glide.infinite THEN st
    ELSE WriteNode(PutOrUpdate(st, ix, distance),
                   ix,
                   st.explored[reference_ix].height - HeightLoss(distance, effective_glide),
                   stored,
                   distance,
                   reference_ix)

\* The proposal without the return for an infinite effective glide ratio.
ProposeInfeasible(st, ix, reference_ix, stored, effective_glide, distance) ==
    WriteNode(PutOrUpdate(st, ix, distance + st.explored[reference_ix].distance),
              ix,
              st.explored[reference_ix].height - HeightLoss(distance, effective_glide),
              stored,
              distance + st.explored[reference_ix].distance,
              reference_ix)

\* The proposal both update_one_neighbor and update_two_neighbors make for
\* ix from the node at reference_ix, distance away at effective_glide:
\* nothing when the glide is infinite, else put_or_update and the writes,
\* with stored as the node's reference.
Propose(st, ix, reference_ix, stored, effective_glide, distance) ==
    IF effective_glide.infinite THEN st
    ELSE WriteNode(PutOrUpdate(st, ix, distance + st.explored[reference_ix].distance),
                   ix,
                   st.explored[reference_ix].height - HeightLoss(distance, effective_glide),
                   stored,
                   distance + st.explored[reference_ix].distance,
                   reference_ix)

\* update_one_neighbor from the choice of the reference on.
ProposeFromReference(st, ix, reference_ix) ==
    Propose(st, ix, reference_ix, GetStraightLineRef(st.explored, ix, reference_ix),
            GetEffectiveGlideRatioFromTo(ix, reference_ix),
            L2Distance(ix, reference_ix) * query.cell_size)

\* update_one_neighbor when neighbor.reference is tried, without the
\* fall back to the neighbour: an intersecting line ends the call.
TryReferenceOnly(st, neighbor_ix, tried, ix) ==
    IF ContainsKey(st.q, ix)
       /\ st.explored[ix].reference # None
       /\ st.explored[ix].reference = tried
    THEN st
    ELSE IF IsLineIntersecting(st.explored, tried, ix)
    THEN st
    ELSE ProposeFromReference(st, ix, tried)

\* update_one_neighbor when neighbor.reference is tried: return when ix is
\* queued with that reference already, else propose from it unless the
\* line from it intersects, and then from the neighbour.
TryNeighborReference(st, neighbor_ix, tried, ix) ==
    IF ContainsKey(st.q, ix)
       /\ st.explored[ix].reference # None
       /\ st.explored[ix].reference = tried
    THEN st
    ELSE IF IsLineIntersecting(st.explored, tried, ix)
    THEN ProposeFromReference(st, ix, neighbor_ix)
    ELSE ProposeFromReference(st, ix, tried)

\* update_one_neighbor without the early return for an unreachable neighbour.
UpdateFromAnyNeighbor(st, neighbor_ix, ix, do_intersection_check) ==
    IF st.explored[neighbor_ix].reference # None
       /\ (query.wind_speed >= query.trim_speed \/ do_intersection_check)
    THEN TryNeighborReference(st, neighbor_ix, st.explored[neighbor_ix].reference, ix)
    ELSE ProposeFromReference(st, ix, neighbor_ix)

\* update_one_neighbor
UpdateOneNeighbor(st, neighbor_ix, ix, do_intersection_check) ==
    IF ~st.explored[neighbor_ix].reachable THEN st
    ELSE IF st.explored[neighbor_ix].reference # None
            /\ (query.wind_speed >= query.trim_speed \/ do_intersection_check)
    THEN TryNeighborReference(st, neighbor_ix, st.explored[neighbor_ix].reference, ix)
    ELSE ProposeFromReference(st, ix, neighbor_ix)

\* update_two_with_different_references
UpdateTwoWithDifferentReferences(st, neighbor_1, neighbor_2, ix) ==
    UpdateOneNeighbor(UpdateOneNeighbor(st, neighbor_1, ix, TRUE), neighbor_2, ix, TRUE)

\* update_two_neighbors when both neighbours are reachable, rpi being
\* their ref_paths_intersection.
UpdateTwoReachable(st, neighbor_1_ix, neighbor_2_ix, ix, rpi) ==
    IF rpi # None
    THEN IF ContainsKey(st.q, ix) /\ st.explored[ix].reference = rpi THEN st
         ELSE Propose(st, ix, rpi, rpi, GetEffectiveGlideRatioFromTo(ix, rpi),
                      L2Distance(ix, rpi) * query.cell_size)
    ELSE UpdateTwoWithDifferentReferences(st, neighbor_1_ix, neighbor_2_ix, ix)

\* update_two_neighbors
UpdateTwoNeighbors(st, neighbor_1_ix, neighbor_2_ix, ix) ==
    IF st.explored[neighbor_1_ix].reachable /\ st.explored[neighbor_2_ix].reachable
    THEN UpdateTwoReachable(st, neighbor_1_ix, neighbor_2_ix, ix,
             RefPathsIntersection(neighbor_1_ix, st.explored[neighbor_1_ix].reference,
                                  neighbor_2_ix, st.explored[neighbor_2_ix].reference))
    ELSE IF st.explored[neighbor_1_ix].reachable
    THEN UpdateOneNeighbor(st, neighbor_1_ix, ix, FALSE)
    ELSE IF st.explored[neighbor_2_ix].reachable
    THEN UpdateOneNeighbor(st, neighbor_2_ix, ix, FALSE)
    ELSE st

\* The cells of a sequence whose node is reachable, in order.
ReachableOf(st, cells) ==
    LET IsReachable(x) == st.explored[x].reachable
    IN  SelectSeq(cells, IsReachable)

\* The number of distinct references (None included) among the cells.
ReferenceSetLen(st, cells) ==
    Cardinality({st.explored[cells[i]].reference : i \in 1 .. Len(cells)})

\* sort_by distance: a stable insertion sort of cells by node distance.
RECURSIVE InsertByDistance(_, _, _)
InsertByDistance(st, sorted, x) ==
    IF sorted = <<>> THEN <<x>>
    ELSE IF st.explored[x].distance < st.explored[Head(sorted)].distance
    THEN <<x>> \o sorted
    ELSE <<Head(sorted)>> \o InsertByDistance(st, Tail(sorted), x)

RECURSIVE SortByDistance(_, _)
SortByDistance(st, cells) ==
    IF cells = <<>> THEN <<>>
    ELSE InsertByDistance(st, SortByDistance(st, SubSeq(cells, 1, Len(cells) - 1)),
                          cells[Len(cells)])

\* update_three_neighbors
UpdateThreeNeighbors(st, explored_neighbors, ix) ==
    LET reachable == ReachableOf(st, explored_neighbors)
        sorted == SortByDistance(st, reachable)
        r1 == reachable[1]
        r2 == reachable[2]
        r3 == reachable[3]
        Ref(x) == st.explored[x].reference
    IN  IF Len(reachable) = 1 THEN UpdateOneNeighbor(st, reachable[1], ix, FALSE)
        ELSE IF Len(reachable) = 2 THEN UpdateTwoNeighbors(st, reachable[1], reachable[2], ix)
        ELSE IF Len(reachable) = 3
        THEN IF ReferenceSetLen(st, reachable) = 3
             THEN UpdateOneNeighbor(
                      UpdateOneNeighbor(
                          UpdateOneNeighbor(st, sorted[1], ix, FALSE),
                          sorted[2], ix, FALSE),
                      sorted[3], ix, FALSE)
             ELSE IF ReferenceSetLen(st, reachable) = 2
             THEN IF Ref(r1) = Ref(r2)
                  THEN UpdateOneNeighbor(UpdateTwoNeighbors(st, r1, r2, ix), r3, ix, FALSE)
                  ELSE IF Ref(r1) = Ref(r3)
                  THEN UpdateOneNeighbor(UpdateTwoNeighbors(st, r1, r3, ix), r2, ix, FALSE)
                  ELSE UpdateOneNeighbor(UpdateTwoNeighbors(st, r2, r3, ix), r1, ix, FALSE)
             ELSE st
        ELSE st

\* update_four_neighbors without the sort: with four distinct references it
\* proposes from the first reachable neighbour.
UpdateFourNeighborsUnsorted(st, explored_neighbors, ix) ==
    LET reachable == ReachableOf(st, explored_neighbors)
    IN  IF Len(reachable) = 0
        THEN WriteUnreachable(PutOrUpdate(st, ix, 0), ix)
        ELSE IF Len(reachable) < 4 THEN UpdateThreeNeighbors(st, explored_neighbors, ix)
        ELSE IF ReferenceSetLen(st, reachable) = 4
        THEN UpdateOneNeighbor(st, reachable[1], ix, FALSE)
        ELSE st

\* update_four_neighbors
UpdateFourNeighbors(st, explored_neighbors, ix) ==
    LET reachable == ReachableOf(st, explored_neighbors)
        sorted == SortByDistance(st, reachable)
    IN  IF Len(reachable) = 0
        THEN WriteUnreachable(PutOrUpdate(st, ix, 0), ix)
        ELSE IF Len(reachable) < 4 THEN UpdateThreeNeighbors(st, explored_neighbors, ix)
        ELSE IF ReferenceSetLen(st, reachable) = 4
        THEN UpdateOneNeighbor(st, sorted[1], ix, FALSE)
        ELSE st

\* The neighbours of ix without the filter on explored.
AllNeighbors(st, ix) == GetNeighborIndices(ix)

\* The neighbours of ix whose node is explored, in neighbour order.
ExploredNeighbors(st, ix) ==
    LET IsExplored(x) == st.explored[x].explored
    IN  SelectSeq(GetNeighborIndices(ix), IsExplored)

\* update_node
UpdateNode(st, ix) ==
    LET explored_neighbors == ExploredNeighbors(st, ix)
    IN  IF Len(explored_neighbors) = 1
        THEN UpdateOneNeighbor(st, explored_neighbors[1], ix, FALSE)
        ELSE IF Len(explored_neighbors) = 2
        THEN UpdateTwoNeighbors(st, explored_neighbors[1], explored_neighbors[2], ix)
        ELSE IF Len(explored_neighbors) = 3
        THEN UpdateThreeNeighbors(st, explored_neighbors, ix)
        ELSE IF Len(explored_neighbors) = 4
        THEN UpdateFourNeighbors(st, explored_neighbors, ix)
        ELSE st

\* The loop body without the test for an explored neighbour.
RelaxNeighborAlways(st, neighbor) == UpdateNode(st, neighbor)

\* The body of the for loop of search for one neighbour of the popped
\* cell: update_node unless the neighbour is explored.
RelaxNeighbor(st, neighbor) ==
    IF ~st.explored[neighbor].explored THEN UpdateNode(st, neighbor) ELSE st

\* put_node
PutNode(st, ix, node) ==
    IF ContainsKey(st.q, ix)
    THEN LET r == UpdatePriorityIfLess(st.q, ix, node.distance)
         IN  IF r.some
             THEN [st EXCEPT !.q = r.q, !.explored[ix] = node]
             ELSE st
    ELSE [st EXCEPT !.q = Push(st.q, ix, node.distance),
                    !.pushCount[ix] = @ + 1,
                    !.explored[ix] = node]

\* ----------------------------------------------------- search inputs
\* Ground heights (metres) a cell can have: flat ground or a wall.
HeightValues == {0, 50}

\* The grids: at most MaxWalls cells raised.
Grids == {g \in [Keys -> HeightValues] : Cardinality({k \in Keys : g[k] # 0}) <= MaxWalls}

\* The queries, with the grid's cell size (metres): calm air; wind stronger
\* than the trim speed from each quarter; a safety margin that applies
\* from a start distance on.  glide_ratio is glide_num / glide_den.
CalmQuery == [cell_size |-> 100, glide_num |-> 1, glide_den |-> 10, trim_speed |-> 10,
              wind_direction |-> 0, wind_speed |-> 0, start_height |-> 30,
              additional_height |-> 45, safety_margin |-> 0, start_distance |-> 0]

Queries ==
    {CalmQuery}
    \cup {[CalmQuery EXCEPT !.wind_speed = 12, !.wind_direction = d] : d \in {0, 3}}
    \cup {[CalmQuery EXCEPT !.safety_margin = 5, !.start_distance = 150]}
    \cup {[CalmQuery EXCEPT !.start_height = None]}

\* prepare_search's start height without the clamp to the ground.
StartHeightAsGiven ==
    (IF query.start_height = None
     THEN heights[start] + query.additional_height
     ELSE query.start_height) * L2Scale

\* The height search is called with: prepare_search's
\* start_height.unwrap_or(..).max(height_at_point), in height units.
StartHeight ==
    Max(IF query.start_height = None
        THEN heights[start] + query.additional_height
        ELSE query.start_height,
        heights[start]) * L2Scale

\* ------------------------------------------- search specification (Spec)
State == [explored |-> explored, q |-> Queue, commits |-> <<>>, proposals |-> <<>>,
          pushCount |-> pushCount]

Install(st) ==
    /\ explored' = st.explored
    /\ heap' = st.q.heap
    /\ positions' = st.q.positions
    /\ commits' = st.commits
    /\ proposals' = st.proposals
    /\ pushCount' = st.pushCount

Init ==
    /\ heights \in Grids
    /\ query \in Queries
    /\ start \in Keys
    /\ explored = [k \in Keys |-> NewNode]
    /\ heap = <<>>
    /\ positions = [k \in Keys |-> Absent]
    /\ prevPop = None
    /\ lastPop = None
    /\ pc = "start"
    /\ current = None
    /\ pending = <<>>
    /\ commits = <<>>
    /\ proposals = <<>>
    /\ popped = <<>>
    /\ result = <<>>
    /\ pushCount = [k \in Keys |-> 0]
    /\ iterator = <<>>
    /\ yielded = <<>>
    /\ tile = <<>>
    /\ request = <<>>
    /\ radix = <<>>
    /\ line = <<>>

\* search: construction of the state and put_node of the start node.
SearchStart ==
    /\ pc = "start"
    /\ Install(PutNode(State, start,
                       [height |-> StartHeight, reference |-> None, distance |-> 0,
                        reachable |-> TRUE, explored |-> FALSE]))
    /\ pc' = "pop"
    /\ UNCHANGED <<heights, query, start, current, pending, prevPop, lastPop, popped, result,
                 iterator, yielded,
                 tile, request, radix, line>>

\* search: queue.pop() returned Some(first); the node is marked explored
\* and the for loop over its neighbours begins.
SearchPop ==
    /\ pc = "pop"
    /\ Len(heap) > 0
    /\ LET r == Pop(Queue)
           first == r.element
       IN  /\ heap' = r.q.heap
           /\ positions' = r.q.positions
           /\ explored' = [explored EXCEPT ![first.key].explored = TRUE]
           /\ current' = first.key
           /\ pending' = GetNeighborIndices(first.key)
           /\ popped' = Append(popped, first)
           /\ pc' = IF GetNeighborIndices(first.key) = <<>> THEN "pop" ELSE "relax"
    /\ commits' = <<>>
    /\ proposals' = <<>>
    /\ UNCHANGED <<heights, query, start, pushCount, prevPop, lastPop, result,
                 iterator, yielded,
                 tile, request, radix, line>>

\* search: one iteration of the for loop over the neighbours.
SearchRelax ==
    /\ pc = "relax"
    /\ Install(RelaxNeighbor(State, Head(pending)))
    /\ pending' = Tail(pending)
    /\ pc' = IF Tail(pending) = <<>> THEN "pop" ELSE "relax"
    /\ UNCHANGED <<heights, query, start, current, prevPop, lastPop, popped, result,
                 iterator, yielded,
                 tile, request, radix, line>>

\* search: queue.pop() returned None; the state is returned.
SearchDone ==
    /\ pc = "pop"
    /\ Len(heap) = 0
    /\ pc' = "done"
    /\ commits' = <<>>
    /\ proposals' = <<>>
    /\ UNCHANGED <<heap, positions, explored, heights, query, start, current, pending,
                   prevPop, lastPop, popped, result, pushCount, iterator, yielded,
                 tile, request, radix, line>>

Next == SearchStart \/ SearchPop \/ SearchRelax \/ SearchDone

Spec == Init /\ [][Next]_vars

\* --------------------------------------------------------- reindex
\* GridIxType subtraction in the release build: u16, wrapping.
SubU16(a, b) == (a - b + PosModulus) % PosModulus

\* Option::None for the reference of a node of the cropped map, whose
\* references are GridIx records.
NoGridIx == [pos |-> <<>>, ix |-> None]

\* GridIx::from_grid for a grid of the given number of columns.
FromGridIn(pos, cols) == [pos |-> pos, ix |-> pos[1] * cols + pos[2]]

\* The rows and the columns of the explored nodes reindex takes the bounding
\* box of: the reachable ones.
ReachableRows(ex) == {RowOf(k) : k \in {c \in Keys : ex[c].explored /\ ex[c].reachable}}
ReachableCols(ex) == {ColOf(k) : k \in {c \in Keys : ex[c].explored /\ ex[c].reachable}}
SetMin(S) == CHOOSE x \in S : \A y \in S : x <= y
SetMax(S) == CHOOSE x \in S : \A y \in S : x >= y

\* reindex_node without the translation of the reference.
ReindexNodeKeepReference(node, k, lat_min, lon_min, cols) ==
    [height |-> node.height,
     ix |-> FromGridIn(<<SubU16(RowOf(k), lat_min), SubU16(ColOf(k), lon_min)>>, cols),
     reference |-> IF node.reference = None THEN NoGridIx
                   ELSE FromGridIn(<<RowOf(node.reference), ColOf(node.reference)>>, cols),
     distance |-> node.distance,
     reachable |-> node.reachable,
     explored |-> node.explored]

\* reindex_node: the node of cell k with its index and its reference moved
\* by the origin (lat_min, lon_min) into a grid of cols columns.
ReindexNode(node, k, lat_min, lon_min, cols) ==
    [height |-> node.height,
     ix |-> FromGridIn(<<SubU16(RowOf(k), lat_min), SubU16(ColOf(k), lon_min)>>, cols),
     reference |-> IF node.reference = None THEN NoGridIx
                   ELSE FromGridIn(<<SubU16(RowOf(node.reference), lat_min),
                                     SubU16(ColOf(node.reference), lon_min)>>, cols),
     distance |-> node.distance,
     reachable |-> node.reachable,
     explored |-> node.explored]

\* The node GridMap::new puts at index i of a grid of cols columns.
FreshNode(i, cols) ==
    [height |-> 0, ix |-> FromGridIn(<<i \div cols, i % cols>>, cols), reference |-> NoGridIx,
     distance |-> 0, reachable |-> FALSE, explored |-> FALSE]

\* The cell of the searched grid at index i of a box of cols columns with
\* the origin (lat_min, lon_min).
BoxCell(i, lat_min, lon_min, cols) ==
    FromGrid(lat_min + (i \div cols), lon_min + (i % cols))

\* GridMap::subset: a fresh map of the box, with every explored node of
\* the box inserted at its new index after reindex_node.
Subset(ex, lat_min, lat_max, lon_min, lon_max) ==
    [i \in 0 .. ((lat_max - lat_min + 1) * (lon_max - lon_min + 1) - 1) |->
        IF ex[BoxCell(i, lat_min, lon_min, lon_max - lon_min + 1)].explored
        THEN ReindexNode(ex[BoxCell(i, lat_min, lon_min, lon_max - lon_min + 1)],
                         BoxCell(i, lat_min, lon_min, lon_max - lon_min + 1),
                         lat_min, lon_min, lon_max - lon_min + 1)
        ELSE FreshNode(i, lon_max - lon_min + 1)]

\* reindex, for the box of the given bounds.
ReindexBox(ex, start_ix, lat_min, lat_max, lon_min, lon_max) ==
    [explored |-> Subset(ex, lat_min, lat_max, lon_min, lon_max),
     shape |-> <<lat_max - lat_min + 1, lon_max - lon_min + 1>>,
     origin |-> <<lat_min, lon_min>>,
     start_ix |-> <<SubU16(RowOf(start_ix), lat_min), SubU16(ColOf(start_ix), lon_min)>>]

\* reindex
Reindex(ex, start_ix) ==
    ReindexBox(ex, start_ix, SetMin(ReachableRows(ex)), SetMax(ReachableRows(ex)),
               SetMin(ReachableCols(ex)), SetMax(ReachableCols(ex)))

\* search_from_point: the explored map search returned is cropped.
SearchReindex ==
    /\ pc = "done"
    /\ result' = Reindex(explored, start)
    /\ pc' = "reindexed"
    /\ UNCHANGED <<heap, positions, explored, heights, query, start, current, pending,
                   commits, proposals, prevPop, lastPop, popped, pushCount, iterator,
                   yielded,
                 tile, request, radix, line>>

NextFromPoint == Next \/ SearchReindex

\* search followed by reindex, as in search_from_point.
SpecFromPoint == Init /\ [][NextFromPoint]_vars

\* ------------------------------------------------------- search claims
\* C2: the distances of the nodes the main loop pops never decrease.
C2_PopOrderNonDecreasing ==
    \A i \in 1 .. Len(popped) : \A j \in i .. Len(popped) : popped[i].item <= popped[j].item

\* The work the search has left: six units for each cell not yet popped, one
\* for each neighbour of the current cell not yet relaxed, one for the
\* final empty pop.
Variant ==
    CASE pc = "start" -> 6 * NumCells + 3
      [] pc = "done" -> 0
      [] OTHER -> 6 * Cardinality({k \in Keys : ~explored[k].explored}) + Len(pending) + 1

\* C3: the search terminates, with an empty queue: every step of the search
\* uses up some of a finite amount of work left, a step leads to the next
\* pop, to a neighbour to relax or to the return, and the search returns
\* only when the queue is empty; no cell
\* is pushed into the queue more than once; every pop shortens the queue by
\* one.
C3_Terminates ==
    [][/\ Variant' < Variant
       /\ Variant' >= 0
       /\ pc' \in {"pop", "done"} \/ (pc' = "relax" /\ Len(pending') > 0)
       /\ pc' = "done" => Len(heap') = 0
       /\ \A k \in Keys : pushCount'[k] <= 1
       /\ Len(popped') > Len(popped) => Len(heap') = Len(heap) - 1]_vars

\* The search ended having pushed and popped every cell of the grid.
C3_Witness == pc = "done" /\ Len(popped) = NumCells /\ \A k \in Keys : pushCount[k] = 1

\* C4: the node of a popped cell never changes again: its height,
\* reference, distance and reachable flag are final, and it stays explored.
C4_ExploredIsFinal ==
    [][\A k \in Keys : explored[k].explored => explored'[k] = explored[k]]_vars

\* A relaxation wrote a node while other cells were already explored.
C4_Witness == pc = "relax" /\ Len(commits) > 0 /\ Len(popped) >= 2

\* C5: whenever a node is written with reference Some(r), r is explored.
C5_ReferenceExplored ==
    \A i \in 1 .. Len(commits) :
        commits[i].reference # None => explored[commits[i].reference].explored

\* A node was written with a reference that is not the neighbour the
\* proposal came through: an ancestor chosen by reference selection or by
\* straight-line collapsing.
C5_Witness ==
    \E i \in 1 .. Len(commits) :
        /\ commits[i].reference # None
        /\ Dist2(commits[i].ix, commits[i].reference) > 1

\* The cell a reference chain ends in, None when it is longer than the grid.
RECURSIVE ChainEnd(_, _, _)
ChainEnd(ex, k, fuel) ==
    IF ex[k].reference = None THEN k
    ELSE IF fuel = 0 THEN None
    ELSE ChainEnd(ex, ex[k].reference, fuel - 1)

\* C6: after the search, the reference chain of every explored node that
\* has a reference ends at the start cell (so it runs into no cycle).
C6_ChainsEndAtStart ==
    pc = "done" =>
        \A k \in Keys :
            (explored[k].explored /\ explored[k].reference # None)
                => ChainEnd(explored, k, NumCells) = start

\* The search ended with a chain of at least two references.
C6_Witness ==
    /\ pc = "done"
    /\ \E k \in Keys :
           /\ explored[k].explored
           /\ explored[k].reference # None
           /\ explored[explored[k].reference].reference # None

\* C7: an explored node lies farther from the start than its reference.
C7_ReferenceIsNearer ==
    \A k \in Keys :
        (explored[k].explored /\ explored[k].reference # None)
            => explored[explored[k].reference].distance < explored[k].distance

\* An explored node whose reference is itself a node with a reference.
C7_Witness ==
    \E k \in Keys :
        /\ explored[k].explored
        /\ explored[k].reference # None
        /\ explored[explored[k].reference].distance > 0

\* Two distances agree up to the resolution of the grid distance, which is
\* rounded to a hundredth of a cell per segment.
SameDistance(a, b) == Abs(a - b) <= query.cell_size

\* C8: the distance of an explored node is its stored reference's distance
\* plus the straight grid distance between the two cells times cell_size.
C8_DistanceFromStoredReference ==
    \A k \in Keys :
        (explored[k].explored /\ explored[k].reference # None)
            => SameDistance(explored[k].distance,
                            explored[explored[k].reference].distance
                            + L2Distance(k, explored[k].reference) * query.cell_size)

\* C9: the line from the stored reference of an explored node to the node
\* passes the terrain clearance check.
C9_StoredLineIsClear ==
    \A k \in Keys :
        (explored[k].explored /\ explored[k].reference # None)
            => ~IsLineIntersecting(explored, explored[k].reference, k)

\* C10: the start node has no reference and distance 0, and the start cell
\* is the first cell popped: from the moment the search has put the start
\* node, and so after any completed search.
C10_StartNode ==
    pc # "start" =>
        /\ explored[start].reference = None
        /\ explored[start].distance = 0
        /\ Len(popped) > 0 => popped[1].key = start
        /\ pc = "done" => explored[start].explored

\* The search ended after popping cells other than the start.
C10_Witness == pc = "done" /\ Len(popped) > 1

\* C11: for every node the search recorded, the start node included,
\* reachable is true exactly when the node's height exceeds the ground at
\* its cell plus the safety margin that applies at the node's distance.
C11_ReachableIffAboveGround ==
    \A k \in Keys :
        pushCount[k] > 0 =>
            (explored[k].reachable
                <=> explored[k].height
                    > GridHeight(k) + GetSafetyMarginAtDistance(explored[k].distance))

\* Some rook neighbour of k is explored and reachable.
HasReachableNeighbor(k) ==
    \E j \in 1 .. Len(GetNeighborIndices(k)) :
        /\ explored[GetNeighborIndices(k)[j]].explored
        /\ explored[GetNeighborIndices(k)[j]].reachable

\* C12: every proposal is built from an explored, reachable node, never from
\* an unreachable one; and after the search a cell other than the start is
\* explored and reachable exactly when a rook neighbour is explored and
\* reachable and relaxation succeeded for it, that is, a proposal for the
\* cell was queued and the height recorded for it clears the ground.
C12_ReachableFromReachable ==
    /\ \A i \in 1 .. Len(commits) :
           commits[i].via # None =>
               /\ explored[commits[i].via].explored
               /\ explored[commits[i].via].reachable
    /\ pc = "done" =>
           \A k \in Keys \ {start} :
               (explored[k].explored /\ explored[k].reachable)
                   <=> /\ HasReachableNeighbor(k)
                       /\ pushCount[k] > 0
                       /\ explored[k].height
                          > GridHeight(k) + GetSafetyMarginAtDistance(explored[k].distance)

\* The search ended with a reachable cell and with a cell that has a
\* reachable neighbour and was recorded unreachable.
C12_Witness ==
    /\ pc = "done"
    /\ \E k \in Keys \ {start} : explored[k].explored /\ explored[k].reachable
    /\ \E k \in Keys \ {start} :
           explored[k].explored /\ ~explored[k].reachable /\ HasReachableNeighbor(k)

\* The cell of the searched grid that index i of the cropped grid stands for.
Uncropped(i) ==
    FromGrid(result.origin[1] + (i \div result.shape[2]),
             result.origin[2] + (i % result.shape[2]))

\* C13: reindex is a translation by the origin (r0, c0) of the bounding box:
\* a node of the cropped map is explored exactly when the node of the cell
\* it stands for was, it then has the same height, distance and reachable
\* flag, it has a reference exactly when that node had one, and the
\* reference is at (r - r0, c - c0) when that node's was at (r, c).
C13_ReindexTranslates ==
    pc = "reindexed" =>
        \A i \in DOMAIN result.explored :
            /\ result.explored[i].explored = explored[Uncropped(i)].explored
            /\ result.explored[i].explored =>
                /\ result.explored[i].height = explored[Uncropped(i)].height
                /\ result.explored[i].distance = explored[Uncropped(i)].distance
                /\ result.explored[i].reachable = explored[Uncropped(i)].reachable
                /\ result.explored[i].ix.ix = i
                /\ (result.explored[i].reference = NoGridIx)
                       <=> (explored[Uncropped(i)].reference = None)
                /\ result.explored[i].reference # NoGridIx =>
                       result.explored[i].reference.pos
                       = <<RowOf(explored[Uncropped(i)].reference) - result.origin[1],
                           ColOf(explored[Uncropped(i)].reference) - result.origin[2]>>

\* A crop with an origin other than (0, 0) kept a node with a reference.
C13_Witness ==
    /\ pc = "reindexed"
    /\ result.origin[1] > 0
    /\ result.origin[2] > 0
    /\ \E i \in DOMAIN result.explored : result.explored[i].reference # NoGridIx

\* C14: the search starts at max(g, user_start_height or g +
\* additional_height), g being the ground at the start cell: at the user's
\* height when one is given and it is not below the ground, at the ground
\* when it is below, at g + additional_height when none is given; so the
\* start node is never below the ground of its cell.
C14_StartHeightClamped ==
    pc # "start" =>
        /\ explored[start].height >= GridHeight(start)
        /\ query.start_height = None =>
               explored[start].height
               = GridHeight(start) + query.additional_height * L2Scale
        /\ (query.start_height # None /\ query.start_height >= heights[start]) =>
               explored[start].height = query.start_height * L2Scale
        /\ (query.start_height # None /\ query.start_height < heights[start]) =>
               explored[start].height = GridHeight(start)

\* A search that started from a height given below the ground has ended.
C14_Witness ==
    /\ pc = "done"
    /\ query.start_height # None
    /\ query.start_height < heights[start]

\* The effective glide ratio g is the raw glide ratio of the query.
IsRawGlide(g) == ~g.infinite /\ g.num * query.glide_den = g.den * query.glide_num

\* The cell whose neighbours are being relaxed and its reference: the
\* cells a relaxed neighbour is reached from.
RelaxSources ==
    {current} \cup (IF explored[current].reference = None THEN {}
                    ELSE {explored[current].reference})

TallWalls ==
    /\ query.wind_speed = 0
    /\ query.safety_margin = 0
    /\ pc # "start"
    /\ \A k \in Keys : heights[k] * L2Scale > explored[start].height \/ heights[k] = heights[start]
    /\ heights[start] * L2Scale < explored[start].height

\* Cell w lies on the segment from the centre of cell a to the centre of
\* cell b, strictly between them.
Between(w, a, b) ==
    /\ w # a /\ w # b
    /\ (RowOf(w) - RowOf(a)) * (ColOf(b) - ColOf(a))
           = (ColOf(w) - ColOf(a)) * (RowOf(b) - RowOf(a))
    /\ Min(RowOf(a), RowOf(b)) <= RowOf(w) /\ RowOf(w) <= Max(RowOf(a), RowOf(b))
    /\ Min(ColOf(a), ColOf(b)) <= ColOf(w) /\ ColOf(w) <= Max(ColOf(a), ColOf(b))

DecreaseEffect(q, key, priority, r) ==
    IF priority < At(q.heap, q.positions[key]).item
    THEN /\ r.some
         /\ ContainsKey(r.q, key)
         /\ At(r.q.heap, r.q.positions[key]) = [key |-> key, item |-> priority]
    ELSE /\ ~r.some
         /\ r.q = q

\* C17: update_priority_if_less does nothing when the new priority is not
\* strictly less than the stored one: it returns None and leaves the heap
\* and the positions map, hence the stored item, as they were; when the
\* new priority is strictly less it returns Some and the key's stored
\* priority is the new one.
C17_OnlyStrictDecrease ==
    pc = "queue" =>
        \A key \in PQKeys : \A priority \in Priorities :
            ContainsKey(Queue, key) =>
                DecreaseEffect(Queue, key, priority,
                               UpdatePriorityIfLess(Queue, key, priority))

\* A queue of several entries in which a call with an equal priority
\* returns None and a call with a smaller one moves the entry.
C17_Witness ==
    /\ pc = "queue"
    /\ Len(heap) >= 2
    /\ \E key \in PQKeys :
           /\ ContainsKey(Queue, key)
           /\ ~UpdatePriorityIfLess(Queue, key, At(heap, positions[key]).item).some
           /\ \E priority \in Priorities :
                  /\ UpdatePriorityIfLess(Queue, key, priority).some
                  /\ UpdatePriorityIfLess(Queue, key, priority).q.positions[key]
                         # positions[key]
\* PriorityQueue::push called with a key the queue holds already: push has
\* no check of its own, so the entry is appended, the position of the key
\* is overwritten and the new entry is sifted up.
PQPushExisting ==
    \E key \in PQKeys, item \in Priorities :
        /\ ContainsKey(Queue, key)
        /\ Len(heap) < MaxQueue
        /\ LET q == Push(Queue, key, item)
           IN  heap' = q.heap /\ positions' = q.positions
        /\ prevPop' = None /\ lastPop' = None
        /\ UNCHANGED searchvars

\* The queue used by a caller that does not test contains_key before push.
PQNextAnyPush == PQNext \/ PQPushExisting

SpecPQAnyPush == PQInit /\ [][PQNextAnyPush]_vars

\* C18: push on a key that is already in the queue aborts: the queue never
\* holds two heap entries for the same key.
C18_NoKeyTwice ==
    \A i \in 1 .. Len(heap) : \A j \in 1 .. Len(heap) :
        i # j => heap[i].key # heap[j].key

\* ------------------------------------------------------------ text search
\* Bounds of the text searches: length of the enumerated keys, length of
\* the enumerated query words, number of stored keys, and edit budget of a
\* query.
MaxWordLen == 3
MaxQueryLen == 2
MaxWords == 2
MaxDistance == 3

\* DistanceType::MAX (u8), the "never visited" value of the memo.
DistanceMax == 255

\* The letters of the keys, in alphabetical order; a word is a sequence of
\* letters.
Letters == <<"a", "b", "e", "h", "i", "l", "m", "o", "r", "u">>
LetterRank(c) == CHOOSE i \in 1 .. Len(Letters) : Letters[i] = c

IsPrefixOf(p, w) == Len(p) <= Len(w) /\ SubSeq(w, 1, Len(p)) = p

\* PrefixTrieBuilder::insert of every word, then finalize: one node per
\* prefix of a stored word (a node is named by its prefix, trie.prefixes);
\* the leafs are the stored words.  reverse stands for the iteration order
\* of the builder's HashMap, which decides between children of equal
\* total_nodes.
BuildTrie(words, reverse) ==
    [nodes |-> {<<>>} \cup UNION {{SubSeq(w, 1, n) : n \in 0 .. Len(w)} : w \in words},
     leafs |-> words,
     reverse |-> reverse]

\* PrefixTrieBuilder::total_nodes of the node of prefix p.
TotalNodes(trie, p) == Cardinality({q \in trie.nodes : IsPrefixOf(p, q)})

\* trie.characters of a node other than the root.
Character(node) == node[Len(node)]

\* The nodes below node, one letter longer.
ChildSet(trie, node) ==
    {q \in trie.nodes : Len(q) = Len(node) + 1 /\ IsPrefixOf(node, q)}

\* The order finalize_node gives the children: sort_by_key on the negated
\* total_nodes, ties in the order the HashMap iterated.
ChildBefore(trie, a, b) ==
    \/ TotalNodes(trie, a) > TotalNodes(trie, b)
    \/ /\ TotalNodes(trie, a) = TotalNodes(trie, b)
       /\ IF trie.reverse
          THEN LetterRank(Character(a)) > LetterRank(Character(b))
          ELSE LetterRank(Character(a)) < LetterRank(Character(b))

RECURSIVE ChildrenInOrder(_, _)
ChildrenInOrder(trie, S) ==
    IF S = {} THEN <<>>
    ELSE <<CHOOSE a \in S : \A b \in S \ {a} : ChildBefore(trie, a, b)>>
         \o ChildrenInOrder(trie,
                S \ {CHOOSE a \in S : \A b \in S \ {a} : ChildBefore(trie, a, b)})

\* trie.children.ix(node)
Children(trie, node) == ChildrenInOrder(trie, ChildSet(trie, node))

\* PrefixTrie::get_child: the child of node with letter c, as a sequence of
\* no or one node.
GetChild(trie, c, node) ==
    IF Append(node, c) \in trie.nodes THEN <<Append(node, c)>> ELSE <<>>

\* A stack entry (node, word_ix, distance).
Entry(node, word_ix, distance) ==
    [node |-> node, word_ix |-> word_ix, distance |-> distance]

\* The entries pushed for the children in ch whose letter differs from c
\* (differs is TRUE) or for all of them.
RECURSIVE ChildEntries(_, _, _, _, _)
ChildEntries(ch, c, differs, word_ix, distance) ==
    IF ch = <<>> THEN <<>>
    ELSE (IF differs /\ Character(Head(ch)) = c THEN <<>>
          ELSE <<Entry(Head(ch), word_ix, distance)>>)
         \o ChildEntries(Tail(ch), c, differs, word_ix, distance)

\* PrefixTrieExactDistanceIterator::next, the pushes of one loop iteration
\* for the popped entry top, in the order they are pushed: inside the word,
\* with no budget the matching child only; with budget the substitutions,
\* the deletion, the insertions and the match; after the word the children,
\* as insertions or, with no budget left, as continuations.
Expand(trie, word, continuations, top) ==
    IF top.word_ix < Len(word)
    THEN IF top.distance = 0
         THEN ChildEntries(GetChild(trie, word[top.word_ix + 1], top.node), "", FALSE,
                           top.word_ix + 1, top.distance)
         ELSE ChildEntries(Children(trie, top.node), word[top.word_ix + 1], TRUE,
                           top.word_ix + 1, top.distance - 1)
              \o <<Entry(top.node, top.word_ix + 1, top.distance - 1)>>
              \o ChildEntries(Children(trie, top.node), word[top.word_ix + 1], TRUE,
                              top.word_ix, top.distance - 1)
              \o ChildEntries(GetChild(trie, word[top.word_ix + 1], top.node), "", FALSE,
                              top.word_ix + 1, top.distance)
    ELSE IF top.distance = 0 /\ ~continuations THEN <<>>
         ELSE ChildEntries(Children(trie, top.node), "", FALSE, top.word_ix,
                           IF top.distance > 0 THEN top.distance - 1 ELSE top.distance)

\* next: the memo test on the popped entry; the entry is skipped when its
\* node was visited at an effective position not smaller than its own.
IsPruned(visited, top) ==
    /\ visited[top.node] # DistanceMax
    /\ top.word_ix + top.distance <= visited[top.node]

\* next: the popped entry stands for a stored key reached with the whole
\* budget spent and the whole word read.
IsResult(trie, word, top) ==
    /\ top.distance = 0
    /\ top.word_ix = Len(word)
    /\ top.node \in trie.leafs

\* The iterator it after the loop iteration that popped top and did not
\* skip it; the entry is not expanded when next returns at once.
Visit(it, trie, word, continuations, top) ==
    [stack |-> SubSeq(it.stack, 1, Len(it.stack) - 1)
                   \o (IF IsResult(trie, word, top) /\ ~continuations THEN <<>>
                       ELSE Expand(trie, word, continuations, top)),
     visited |-> [it.visited EXCEPT ![top.node] = top.word_ix + top.distance]]

\* PrefixTrieExactDistanceIterator::next: entries are popped until one
\* yields the items of its node (some is TRUE, prefix is their key) or the
\* stack is empty; it is the iterator left behind.
RECURSIVE ExactNext(_, _, _, _)
ExactNext(it, trie, word, continuations) ==
    IF it.stack = <<>>
    THEN [some |-> FALSE, prefix |-> <<>>, it |-> it]
    ELSE IF IsPruned(it.visited, it.stack[Len(it.stack)])
    THEN ExactNext([stack |-> SubSeq(it.stack, 1, Len(it.stack) - 1),
                    visited |-> it.visited],
                   trie, word, continuations)
    ELSE IF IsResult(trie, word, it.stack[Len(it.stack)])
    THEN [some |-> TRUE, prefix |-> it.stack[Len(it.stack)].node,
          it |-> Visit(it, trie, word, continuations, it.stack[Len(it.stack)])]
    ELSE ExactNext(Visit(it, trie, word, continuations, it.stack[Len(it.stack)]),
                   trie, word, continuations)

\* PrefixTrie::find_with_exact_edit_distance_stack with the memo visited.
FindWithExactEditDistanceStack(distance, visited) ==
    [stack |-> <<Entry(<<>>, 0, distance)>>, visited |-> visited]

\* PrefixTrie::find_with_max_edit_distance
FindWithMaxEditDistance(trie, word, distance, continuations) ==
    [current_distance |-> 0,
     max_distance |-> distance,
     inner_iterator |->
         FindWithExactEditDistanceStack(0, [n \in trie.nodes |-> DistanceMax]),
     continuations |-> continuations,
     trie |-> trie,
     word |-> word]

\* The inner iterator of the next round with an empty memo instead of the
\* clone.
NextRoundFreshMemo(m, it) ==
    [m EXCEPT !.current_distance = m.current_distance + 1,
              !.inner_iterator =
                  FindWithExactEditDistanceStack(m.current_distance + 1,
                                                 [n \in m.trie.nodes |-> DistanceMax])]

\* The inner iterator of the next round: the beginning stack with the new
\* budget and a clone of the memo.
NextRound(m, it) ==
    [m EXCEPT !.current_distance = m.current_distance + 1,
              !.inner_iterator =
                  FindWithExactEditDistanceStack(m.current_distance + 1, it.visited)]

\* PrefixTrieMaxDistanceIterator::next: the inner iterator's next item, the
\* rounds advancing while it has none and the budget allows; m is the
\* iterator left behind.
RECURSIVE MaxDistanceNext(_)
MaxDistanceNext(m) ==
    IF m.current_distance > m.max_distance
    THEN [some |-> FALSE, prefix |-> <<>>, m |-> m]
    ELSE LET item == ExactNext(m.inner_iterator, m.trie, m.word, m.continuations)
         IN  IF item.some
             THEN [some |-> TRUE,
                   prefix |-> item.prefix,
                   m |-> [m EXCEPT !.inner_iterator = item.it]]
             ELSE MaxDistanceNext(NextRound(m, item.it))

\* The words over the letters a and b of at most n letters.
SmallWords(n) == UNION {[1 .. k -> {"a", "b"}] : k \in 1 .. n}

\* The keys of test_prefix_trie_max_edit_distance.
TestWords ==
    {<<"h", "e", "l", "l", "o">>, <<"h", "e", "l", "i", "u", "m">>,
     <<"h", "e", "r", "o">>, <<"h", "e", "r">>, <<"a", "b", "b", "a">>,
     <<"a", "b", "e", "r">>, <<"a", "l", "l", "a">>, <<"a", "l", "l">>}

WordSets ==
    {S \in SUBSET SmallWords(MaxWordLen) :
         Cardinality(S) >= 1 /\ Cardinality(S) <= MaxWords}
        \cup {TestWords}

QueryWords == SmallWords(MaxQueryLen) \cup {<<>>, <<"h", "e", "r">>}

\* The variables other than those of the text search.
gridvars == <<heap, positions, prevPop, lastPop, explored, heights, query, start,
              current, pending, commits, proposals, popped, result, pushCount>>

\* A trie is built and find_with_max_edit_distance called on it.
TextInit ==
    /\ \E words \in WordSets, word \in QueryWords, distance \in 0 .. MaxDistance,
          continuations \in BOOLEAN, reverse \in BOOLEAN :
           iterator = FindWithMaxEditDistance(BuildTrie(words, reverse), word,
                                              distance, continuations)
    /\ yielded = <<>>
    /\ pc = "text"
    /\ heap = <<>>
    /\ positions = [k \in Keys |-> Absent]
    /\ prevPop = None
    /\ lastPop = None
    /\ explored = <<>>
    /\ heights = <<>>
    /\ query = <<>>
    /\ start = None
    /\ current = None
    /\ pending = <<>>
    /\ commits = <<>>
    /\ proposals = <<>>
    /\ popped = <<>>
    /\ result = <<>>
    /\ pushCount = <<>>
    /\ tile = <<>>
    /\ request = <<>>
    /\ radix = <<>>
    /\ line = <<>>

\* The caller takes the next item of the iterator: Some(..), recorded with
\* the round that yielded it.
TextNextSome ==
    /\ pc = "text"
    /\ LET item == MaxDistanceNext(iterator)
       IN  /\ item.some
           /\ iterator' = item.m
           /\ yielded' = Append(yielded,
                                [key |-> item.prefix,
                                 distance |-> item.m.current_distance])
    /\ UNCHANGED <<pc, gridvars, servicevars>>

\* The caller takes the next item of the iterator: None, the query is over.
TextNextNone ==
    /\ pc = "text"
    /\ LET item == MaxDistanceNext(iterator)
       IN  /\ ~item.some
           /\ iterator' = item.m
    /\ pc' = "text_done"
    /\ UNCHANGED <<yielded, gridvars, servicevars>>

TextNext == TextNextSome \/ TextNextNone

SpecText == TextInit /\ [][TextNext]_vars

\* ------------------------------------------------------- text search claims
\* The edit distance of the first i letters of a and the first j of b:
\* the least number of insertions, deletions and substitutions.
RECURSIVE PrefixEditDistance(_, _, _, _)
PrefixEditDistance(a, b, i, j) ==
    IF i = 0 THEN j
    ELSE IF j = 0 THEN i
    ELSE Min(Min(PrefixEditDistance(a, b, i - 1, j) + 1,
                 PrefixEditDistance(a, b, i, j - 1) + 1),
             PrefixEditDistance(a, b, i - 1, j - 1) + (IF a[i] = b[j] THEN 0 ELSE 1))

EditDistance(a, b) == PrefixEditDistance(a, b, Len(a), Len(b))

\* The query of test_prefix_trie_max_edit_distance: "her" with budget 2 and
\* no continuations over the eight keys of the test.
IsTestQuery ==
    /\ iterator.trie.leafs = TestWords
    /\ iterator.word = <<"h", "e", "r">>
    /\ iterator.max_distance = 2
    /\ ~iterator.continuations

\* C19: without continuations the query enumerates its results by ascending
\* edit distance: the rounds of the yielded keys never decrease along the
\* output, no key comes before a key that is fewer edits away from the
\* query word, and the query "her" with budget 2 over hello, helium, hero,
\* her, abba, aber, alla, all yields her, hero, aber in this order.
C19_AscendingDistance ==
    (pc \in {"text", "text_done"} /\ ~iterator.continuations) =>
        /\ \A i \in 1 .. Len(yielded) : \A j \in 1 .. Len(yielded) :
               i < j =>
                   /\ yielded[i].distance <= yielded[j].distance
                   /\ EditDistance(iterator.word, yielded[i].key)
                          <= EditDistance(iterator.word, yielded[j].key)
        /\ (pc = "text_done" /\ IsTestQuery) =>
               [i \in 1 .. Len(yielded) |-> yielded[i].key]
                   = <<<<"h", "e", "r">>, <<"h", "e", "r", "o">>, <<"a", "b", "e", "r">>>>

\* C20: without continuations the query with budget max_distance yields
\* exactly the stored keys within max_distance edits of the query word: at
\* the end none of them is missing and no other key was yielded.
C20_YieldsAllWithinBudget ==
    (pc = "text_done" /\ ~iterator.continuations) =>
        {yielded[i].key : i \in 1 .. Len(yielded)}
            = {w \in iterator.trie.leafs :
                   EditDistance(iterator.word, w) <= iterator.max_distance}

\* ============================================================ tile loading
\* height_data.rs.  A tile file holds HGT_SIZE * HGT_SIZE big-endian i16
\* values in row-major order; HgtSize is the model's HGT_SIZE.
HgtSize == 3
\* At most this many values of a file are outliers.
MaxOutliers == 3
\* The literal of the tests `r < -1000`.
OutlierLimit == -1000

TileCells == 0 .. (HgtSize * HgtSize - 1)

\* Values a file may hold at an outlier position: the SRTM void, the
\* largest value below the limit, and the limit itself.
OutlierValues == {-32768, OutlierLimit - 1, OutlierLimit}

\* The files of size * size values: position ix holds the height
\* 10 * (ix + 1), except at up to outliers positions.
TileFiles(size, outliers) ==
    UNION {{[i \in 1 .. (size * size) |->
                IF (i - 1) \in S THEN o[i - 1] ELSE 10 * i] : o \in [S -> OutlierValues]} :
           S \in {T \in SUBSET (0 .. (size * size - 1)) : Cardinality(T) <= outliers}}

\* `if r < -1000 && cond { r = vec[i] }` on the pair s = (panicked, r); the
\* index i is a usize into vec, so one outside 0 .. len-1 panics.
Replace(s, cond, i, vec) ==
    IF s.panic \/ ~(s.r < OutlierLimit /\ cond) THEN s
    ELSE IF i < 0 \/ i >= Len(vec) THEN [panic |-> TRUE, r |-> s.r]
    ELSE [panic |-> FALSE, r |-> vec[i + 1]]

\* The last test of both loops: a value still below the limit panics.
OrPanic(s) == [panic |-> s.panic \/ s.r < OutlierLimit, r |-> s.r]

\* load_hgt, body of the loop: the value pushed for the raw value r when
\* result_vec holds the values before it.
PatchFromVec(r, result_vec) ==
    OrPanic(
      Replace(
        Replace(
          Replace(
            Replace([panic |-> FALSE, r |-> r],
                    Len(result_vec) >= 1, Len(result_vec) - 1, result_vec),
            Len(result_vec) >= HgtSize, Len(result_vec) - HgtSize - 1, result_vec),
          Len(result_vec) >= HgtSize - 1, Len(result_vec) - HgtSize, result_vec),
        Len(result_vec) >= HgtSize + 1, Len(result_vec) - HgtSize - 2, result_vec))

\* load_hgt, the loop from the value after those in result_vec on.
RECURSIVE LoadHgtFrom(_, _)
LoadHgtFrom(content, result_vec) ==
    IF Len(result_vec) = Len(content)
    THEN [panic |-> FALSE, heights |-> result_vec]
    ELSE IF PatchFromVec(content[Len(result_vec) + 1], result_vec).panic
    THEN [panic |-> TRUE, heights |-> <<>>]
    ELSE LoadHgtFrom(content,
                     Append(result_vec,
                            PatchFromVec(content[Len(result_vec) + 1], result_vec).r))

\* load_hgt on a file of the right size.
LoadHgt(content) == LoadHgtFrom(content, <<>>)

\* load_hgt_to_array, body of the loop for position ix = x * HGT_SIZE + y;
\* array is the view in row-major order.
PatchFromArray(r, ix, array) ==
    OrPanic(
      Replace(
        Replace(
          Replace(
            Replace([panic |-> FALSE, r |-> r],
                    ix % HgtSize > 0, ix - 1, array),
            ix \div HgtSize > 0, ix - HgtSize, array),
          ix \div HgtSize > 0 /\ ix % HgtSize < HgtSize - 1, ix - HgtSize + 1, array),
        ix \div HgtSize > 0 /\ ix % HgtSize > 0, ix - HgtSize - 1, array))

\* load_hgt_to_array, the loop from position ix on.
RECURSIVE LoadHgtToArrayFrom(_, _, _)
LoadHgtToArrayFrom(content, ix, array) ==
    IF ix = Len(content)
    THEN [panic |-> FALSE, heights |-> array]
    ELSE IF PatchFromArray(content[ix + 1], ix, array).panic
    THEN [panic |-> TRUE, heights |-> <<>>]
    ELSE LoadHgtToArrayFrom(content, ix + 1,
                            [array EXCEPT ![ix + 1] =
                                 PatchFromArray(content[ix + 1], ix, array).r])

\* load_hgt_to_array into a view of Array2::zeros.
LoadHgtToArray(content) ==
    LoadHgtToArrayFrom(content, 0, [i \in 1 .. Len(content) |-> 0])

\* A tile file is on disk and nothing has been loaded.
TileInit ==
    /\ \E content \in TileFiles(HgtSize, MaxOutliers) :
           tile = [content |-> content, loader |-> "none", panic |-> FALSE,
                   heights |-> <<>>]
    /\ pc = "tile"
    /\ request = <<>>
    /\ radix = <<>>
    /\ iterator = <<>>
    /\ yielded = <<>>
    /\ heap = <<>>
    /\ positions = [k \in Keys |-> Absent]
    /\ prevPop = None
    /\ lastPop = None
    /\ explored = <<>>
    /\ heights = <<>>
    /\ query = <<>>
    /\ start = None
    /\ current = None
    /\ pending = <<>>
    /\ commits = <<>>
    /\ proposals = <<>>
    /\ popped = <<>>
    /\ result = <<>>
    /\ pushCount = <<>>
    /\ line = <<>>

\* The tile is loaded with load_hgt: it returns the array or panics.
TileLoadHgt ==
    /\ pc = "tile"
    /\ tile' = [content |-> tile.content, loader |-> "load_hgt",
                panic |-> LoadHgt(tile.content).panic,
                heights |-> LoadHgt(tile.content).heights]
    /\ pc' = "tile_done"
    /\ UNCHANGED <<gridvars, textvars, request, radix, line>>

\* The tile is loaded with load_hgt_to_array.
TileLoadHgtToArray ==
    /\ pc = "tile"
    /\ tile' = [content |-> tile.content, loader |-> "load_hgt_to_array",
                panic |-> LoadHgtToArray(tile.content).panic,
                heights |-> LoadHgtToArray(tile.content).heights]
    /\ pc' = "tile_done"
    /\ UNCHANGED <<gridvars, textvars, request, radix, line>>

TileNext == TileLoadHgt \/ TileLoadHgtToArray

SpecTile == TileInit /\ [][TileNext]_vars

\* The neighbours of position ix that exist in the tile, in the order left,
\* above, above-right, above-left.
AvailableNeighbours(ix) ==
    (IF ix % HgtSize > 0 THEN <<ix - 1>> ELSE <<>>)
    \o (IF ix \div HgtSize > 0 THEN <<ix - HgtSize>> ELSE <<>>)
    \o (IF ix \div HgtSize > 0 /\ ix % HgtSize < HgtSize - 1
        THEN <<ix - HgtSize + 1>> ELSE <<>>)
    \o (IF ix \div HgtSize > 0 /\ ix % HgtSize > 0
        THEN <<ix - HgtSize - 1>> ELSE <<>>)

\* C21: a load that returns gives an array whose cells are all greater than
\* -1000, with every value below -1000 of the file replaced by the loaded
\* value of its first available neighbour among left, above, above-right,
\* above-left; when a value below -1000 has no such neighbour the load
\* panics.
C21_VoidsFilled ==
    pc = "tile_done" =>
        /\ (\E ix \in TileCells : /\ tile.content[ix + 1] < OutlierLimit
                                  /\ AvailableNeighbours(ix) = <<>>)
               => tile.panic
        /\ ~tile.panic =>
               \A ix \in TileCells :
                   /\ tile.heights[ix + 1] > OutlierLimit
                   /\ tile.content[ix + 1] < OutlierLimit =>
                          /\ AvailableNeighbours(ix) # <<>>
                          /\ tile.heights[ix + 1]
                                 = tile.heights[Head(AvailableNeighbours(ix)) + 1]

\* ======================================================== request handling
\* bin/main.rs.  A request parameter is an Option<f32>; an f32 is either NaN
\* or a number (the query string "NaN" parses to an f32).
CELL_SIZE_DEFAULT == 200
CELL_SIZE_MINIMUM == 30
CELL_SIZE_MAXIMUM == 500
GLIDE_NUMBER_DEFAULT == 8
GLIDE_NUMBER_MAXIMUM == 15
GLIDE_NUMBER_MINIMUM == 1
ADDITIONAL_HEIGHT_DEFAULT == 10
ADDITIONAL_HEIGHT_MAXIMUM == 1000
ADDITIONAL_HEIGHT_MINIMUM == 0
WIND_SPEED_DEFAULT == 0
WIND_SPEED_MINIMUM == 0
WIND_SPEED_MAXIMUM == 50
WIND_DIRECTION_DEFAULT == 0
TRIM_SPEED_DEFAULT == 38
TRIM_SPEED_MINIMUM == 0
TRIM_SPEED_MAXIMUM == 80
SAFETY_MARGIN_DEFAULT == 0
SAFETY_MARGIN_MINIMUM == 0
START_DISTANCE_DEFAULT == 0
START_DISTANCE_MINIMUM == 0

\* A request supplies at most this many of the optional parameters.
MaxParams == 2

\* f32 values: a number, or NaN.
Num(v) == [nan |-> FALSE, v |-> v]
NaN == [nan |-> TRUE, v |-> 0]
\* The comparison `a < b` of f32: false when either side is NaN.
Lt(a, b) == ~a.nan /\ ~b.nan /\ a.v < b.v

\* f32::clamp: `if self < min { self = min } if self > max { self = max }`.
Clamp(self, min, max) ==
    IF Lt(self, min) THEN (IF Lt(max, min) THEN max ELSE min)
    ELSE IF Lt(max, self) THEN max
    ELSE self

\* f32::max: the larger argument, and the other argument when one is NaN.
FMax(self, other) ==
    IF self.nan THEN other
    ELSE IF other.nan THEN self
    ELSE IF Lt(self, other) THEN other
    ELSE self

\* Option<f32> and Option::unwrap_or.
Some(x) == [some |-> TRUE, value |-> x]
Nothing == [some |-> FALSE, value |-> Num(0)]
UnwrapOr(opt, default) == IF opt.some THEN opt.value ELSE default

\* The optional parameters of the flight-cone routes.
ParamNames == {"cell_size", "glide_number", "additional_height", "start_height",
               "wind_speed", "wind_direction", "trim_speed", "safety_margin",
               "start_distance"}

\* Values a request may supply: below every minimum, inside the range of
\* most parameters, above every maximum, and NaN.
SuppliedValues == {Num(-5), Num(40), Num(2000), NaN}

\* The requests: every parameter absent except up to MaxParams of them.
RequestParams ==
    UNION {{[n \in ParamNames |-> IF n \in S THEN Some(o[n]) ELSE Nothing] :
                o \in [S -> SuppliedValues]} :
           S \in {T \in SUBSET ParamNames : Cardinality(T) <= MaxParams}}

\* search_from_request up to the call of search_from_point_memoized: the
\* values the search is run with (the memo holds nothing yet).
SearchFromRequest(p) ==
    [cell_size |-> Clamp(UnwrapOr(p["cell_size"], Num(CELL_SIZE_DEFAULT)),
                         Num(CELL_SIZE_MINIMUM), Num(CELL_SIZE_MAXIMUM)),
     glide_number |-> Clamp(UnwrapOr(p["glide_number"], Num(GLIDE_NUMBER_DEFAULT)),
                            Num(GLIDE_NUMBER_MINIMUM), Num(GLIDE_NUMBER_MAXIMUM)),
     additional_height |->
         Clamp(UnwrapOr(p["additional_height"], Num(ADDITIONAL_HEIGHT_DEFAULT)),
               Num(ADDITIONAL_HEIGHT_MINIMUM), Num(ADDITIONAL_HEIGHT_MAXIMUM)),
     wind_speed |-> Clamp(UnwrapOr(p["wind_speed"], Num(WIND_SPEED_DEFAULT)),
                          Num(WIND_SPEED_MINIMUM), Num(WIND_SPEED_MAXIMUM)),
     wind_direction |-> UnwrapOr(p["wind_direction"], Num(WIND_DIRECTION_DEFAULT)),
     trim_speed |-> Clamp(UnwrapOr(p["trim_speed"], Num(TRIM_SPEED_DEFAULT)),
                          Num(TRIM_SPEED_MINIMUM), Num(TRIM_SPEED_MAXIMUM)),
     safety_margin |-> FMax(UnwrapOr(p["safety_margin"], Num(SAFETY_MARGIN_DEFAULT)),
                            Num(SAFETY_MARGIN_MINIMUM)),
     start_distance |-> FMax(UnwrapOr(p["start_distance"], Num(START_DISTANCE_DEFAULT)),
                             Num(START_DISTANCE_MINIMUM)),
     start_height |-> p["start_height"]]

\* location_supported(lat, lon): true iff the containing tile file exists.
LocationSupported(r) == r.tile_exists

\* A handler that asks location_supported first and answers NotFound when
\* it is false.
CheckedHandler(name) ==
    /\ pc = "request"
    /\ request' =
           IF ~LocationSupported(request)
           THEN [request EXCEPT !.handler = name, !.outcome = "not_found"]
           ELSE [request EXCEPT !.handler = name, !.checked = TRUE,
                                !.launched = TRUE,
                                !.search = SearchFromRequest(request.params),
                                !.outcome = "ok"]
    /\ pc' = "request_done"
    /\ UNCHANGED <<gridvars, textvars, tile, radix, line>>

\* A handler that calls search_from_request at once; load_hgt panics when
\* it cannot open the tile file.
UncheckedHandler(name) ==
    /\ pc = "request"
    /\ request' = [request EXCEPT !.handler = name, !.launched = TRUE,
                                  !.search = SearchFromRequest(request.params),
                                  !.outcome = IF request.tile_exists THEN "ok"
                                              ELSE "panic"]
    /\ pc' = "request_done"
    /\ UNCHANGED <<gridvars, textvars, tile, radix, line>>

GetFlightCone == CheckedHandler("get_flight_cone")
GetFlightConeStream == UncheckedHandler("get_flight_cone_stream")
GetFlightConeBounds == CheckedHandler("get_flight_cone_bounds")
GetAglImage == UncheckedHandler("get_agl_image")
GetHeightImage == UncheckedHandler("get_height_image")
GetRawHeightImage == UncheckedHandler("get_raw_height_image")
GetKml == UncheckedHandler("get_kml")

\* A request has arrived; the tile of its point exists or not.
RequestInit ==
    /\ \E p \in RequestParams, tile_exists \in BOOLEAN :
           request = [params |-> p, tile_exists |-> tile_exists, handler |-> "none",
                      checked |-> FALSE, launched |-> FALSE,
                      search |-> SearchFromRequest([n \in ParamNames |-> Nothing]),
                      outcome |-> "pending"]
    /\ pc = "request"
    /\ tile = <<>>
    /\ radix = <<>>
    /\ iterator = <<>>
    /\ yielded = <<>>
    /\ heap = <<>>
    /\ positions = [k \in Keys |-> Absent]
    /\ prevPop = None
    /\ lastPop = None
    /\ explored = <<>>
    /\ heights = <<>>
    /\ query = <<>>
    /\ start = None
    /\ current = None
    /\ pending = <<>>
    /\ commits = <<>>
    /\ proposals = <<>>
    /\ popped = <<>>
    /\ result = <<>>
    /\ pushCount = <<>>
    /\ line = <<>>

RequestNext ==
    \/ GetFlightCone
    \/ GetFlightConeStream
    \/ GetFlightConeBounds
    \/ GetAglImage
    \/ GetHeightImage
    \/ GetRawHeightImage
    \/ GetKml

SpecRequest == RequestInit /\ [][RequestNext]_vars

\* x is a number of the interval [lo, hi].
InRange(x, lo, hi) == ~x.nan /\ lo <= x.v /\ x.v <= hi
\* x is a number that is at least lo.
AtLeast(x, lo) == ~x.nan /\ lo <= x.v

\* C22: whatever the request supplies, a launched search runs with
\* cell_size in [30, 500], glide_number in [1, 15], additional_height in
\* [0, 1000], wind_speed in [0, 50], trim_speed in [0, 80], safety_margin
\* and start_distance at least 0, and with the default of each of these
\* parameters that the request leaves out.
C22_ClampedParameters ==
    (pc = "request_done" /\ request.launched) =>
        /\ InRange(request.search.cell_size, 30, 500)
        /\ InRange(request.search.glide_number, 1, 15)
        /\ InRange(request.search.additional_height, 0, 1000)
        /\ InRange(request.search.wind_speed, 0, 50)
        /\ InRange(request.search.trim_speed, 0, 80)
        /\ AtLeast(request.search.safety_margin, 0)
        /\ AtLeast(request.search.start_distance, 0)
        /\ ~request.params["cell_size"].some => request.search.cell_size = Num(200)
        /\ ~request.params["glide_number"].some => request.search.glide_number = Num(8)
        /\ ~request.params["additional_height"].some
               => request.search.additional_height = Num(10)
        /\ ~request.params["wind_speed"].some => request.search.wind_speed = Num(0)
        /\ ~request.params["trim_speed"].some => request.search.trim_speed = Num(38)
        /\ ~request.params["safety_margin"].some
               => request.search.safety_margin = Num(0)
        /\ ~request.params["start_distance"].some
               => request.search.start_distance = Num(0)

\* C23: on every request path, a search is launched only after
\* location_supported returned true for the point of the request.
C23_SupportedBeforeSearch ==
    (pc = "request_done" /\ request.launched) => request.checked

\* ============================================================== radix heap
\* radix_heap.rs.  RadixBits is the model's RADIX_BITS, the width of a
\* priority; the heap has RadixBits + 1 buckets.
RadixBits == 3
\* Largest key pushed and largest number of items held at once.
MaxRadixKey == 1
MaxRadixLen == 3

RadixPriorities == 0 .. (2 ^ RadixBits - 1)
RadixKeys == 0 .. MaxRadixKey

\* Radix::radix_distance for the integers: RADIX_BITS minus the leading
\* zeros of self ^ other, i.e. the number of low bits that have to be
\* dropped from both before they agree.
RadixDistance(self, other) ==
    CHOOSE n \in 0 .. RadixBits :
        /\ self \div (2 ^ n) = other \div (2 ^ n)
        /\ \A m \in 0 .. (n - 1) : self \div (2 ^ m) # other \div (2 ^ m)

\* RadixHeap::new(top).
RadixNew(top) ==
    [len |-> 0, top |-> top, buckets |-> [b \in 0 .. RadixBits |-> <<>>],
     positions |-> [k \in RadixKeys |-> <<>>], panic |-> FALSE]

\* RadixHeap::push; the assert panics for a priority below top.
RadixPush(h, key, item, priority) ==
    IF priority < h.top THEN [h EXCEPT !.panic = TRUE]
    ELSE [h EXCEPT
            !.positions[key] = <<RadixDistance(priority, h.top),
                                 Len(h.buckets[RadixDistance(priority, h.top)])>>,
            !.buckets[RadixDistance(priority, h.top)] =
                Append(@, [priority |-> priority, item |-> item, key |-> key]),
            !.len = @ + 1]

\* position(|bucket| !bucket.is_empty()): the first non-empty bucket, or
\* None.
FirstNonEmpty(h) ==
    IF \A b \in 0 .. RadixBits : h.buckets[b] = <<>> THEN None
    ELSE CHOOSE b \in 0 .. RadixBits :
             /\ h.buckets[b] # <<>>
             /\ \A c \in 0 .. (b - 1) : h.buckets[c] = <<>>

\* min_by_key(|x| x.priority) of a non-empty bucket.
MinPriority(bucket) ==
    CHOOSE p \in {bucket[i].priority : i \in 1 .. Len(bucket)} :
        \A i \in 1 .. Len(bucket) : p <= bucket[i].priority

\* constrain, the drain of repush: the nodes are pushed into the buckets
\* below index; `buckets` is the slice of those, so a radix distance of
\* index or more is out of its bounds and panics.
RECURSIVE Repush(_, _, _)
Repush(h, index, repush) ==
    IF repush = <<>> \/ h.panic THEN h
    ELSE IF RadixDistance(Head(repush).priority, h.top) >= index
    THEN [h EXCEPT !.panic = TRUE]
    ELSE Repush([h EXCEPT
                   !.positions[Head(repush).key] =
                       <<RadixDistance(Head(repush).priority, h.top),
                         Len(h.buckets[RadixDistance(Head(repush).priority, h.top)])>>,
                   !.buckets[RadixDistance(Head(repush).priority, h.top)] =
                       Append(@, Head(repush))],
                index, Tail(repush))

\* RadixHeap::constrain.
Constrain(h) ==
    IF FirstNonEmpty(h) \in {None, 0} THEN h
    ELSE Repush([h EXCEPT !.top = MinPriority(h.buckets[FirstNonEmpty(h)]) - 1,
                          !.buckets[FirstNonEmpty(h)] = <<>>],
                FirstNonEmpty(h), h.buckets[FirstNonEmpty(h)])

\* The rest of pop once bucket 0 of h is what it pops from: Vec::pop takes
\* the last node, and the heap forgets its key and moves top to it.
PopBucketZero(h) ==
    IF h.panic \/ h.buckets[0] = <<>>
    THEN [some |-> FALSE, node |-> [priority |-> 0, item |-> 0, key |-> 0], h |-> h]
    ELSE [some |-> TRUE,
          node |-> h.buckets[0][Len(h.buckets[0])],
          h |-> [h EXCEPT !.buckets[0] = SubSeq(@, 1, Len(@) - 1),
                          !.len = @ - 1,
                          !.positions[h.buckets[0][Len(h.buckets[0])].key] = <<>>,
                          !.top = h.buckets[0][Len(h.buckets[0])].priority]]

\* RadixHeap::pop.
RadixPop(h) ==
    IF h.buckets[0] # <<>> THEN PopBucketZero(h) ELSE PopBucketZero(Constrain(h))

\* The priorities of the nodes the heap holds, each with its multiplicity.
RadixItems(h) ==
    [p \in RadixPriorities |->
        Cardinality({<<b, i>> \in (0 .. RadixBits) \X (1 .. MaxRadixLen) :
                        i <= Len(h.buckets[b]) /\ h.buckets[b][i].priority = p})]

\* A heap has been made with RadixHeap::new.
RadixInit ==
    /\ \E top \in RadixPriorities :
           radix = [h |-> RadixNew(top), last |-> top, draining |-> FALSE,
                    remaining |-> [p \in RadixPriorities |-> 0],
                    drained |-> <<>>, done |-> FALSE]
    /\ pc = "radix"
    /\ tile = <<>>
    /\ request = <<>>
    /\ iterator = <<>>
    /\ yielded = <<>>
    /\ heap = <<>>
    /\ positions = [k \in Keys |-> Absent]
    /\ prevPop = None
    /\ lastPop = None
    /\ explored = <<>>
    /\ heights = <<>>
    /\ query = <<>>
    /\ start = None
    /\ current = None
    /\ pending = <<>>
    /\ commits = <<>>
    /\ proposals = <<>>
    /\ popped = <<>>
    /\ result = <<>>
    /\ pushCount = <<>>
    /\ line = <<>>

\* The caller pushes a priority that is at least the last popped one (the
\* initial top before the first pop).
RadixDoPush ==
    /\ pc = "radix"
    /\ ~radix.draining /\ ~radix.h.panic
    /\ radix.h.len < MaxRadixLen
    /\ \E key \in RadixKeys, priority \in RadixPriorities :
           /\ priority >= radix.last
           /\ radix' = [radix EXCEPT !.h = RadixPush(radix.h, key, priority, priority)]
    /\ UNCHANGED <<pc, gridvars, textvars, tile, request, line>>

\* The caller pops.
RadixDoPop ==
    /\ pc = "radix"
    /\ ~radix.draining /\ ~radix.h.panic
    /\ radix' = [radix EXCEPT
                   !.h = RadixPop(radix.h).h,
                   !.last = IF RadixPop(radix.h).some
                            THEN RadixPop(radix.h).node.priority ELSE @]
    /\ UNCHANGED <<pc, gridvars, textvars, tile, request, line>>

\* The caller turns the heap into its iterator; what the heap holds now is
\* what remains to be drained.
RadixIntoIter ==
    /\ pc = "radix"
    /\ ~radix.draining /\ ~radix.h.panic
    /\ radix' = [radix EXCEPT !.draining = TRUE, !.remaining = RadixItems(radix.h)]
    /\ UNCHANGED <<pc, gridvars, textvars, tile, request, line>>

\* RadixHeapIterator::next: one pop; None (or a panic) ends the drain.
RadixIterNext ==
    /\ pc = "radix"
    /\ radix.draining
    /\ radix' = [radix EXCEPT
                   !.h = RadixPop(radix.h).h,
                   !.drained = IF RadixPop(radix.h).some
                               THEN Append(@, RadixPop(radix.h).node.priority) ELSE @,
                   !.done = ~RadixPop(radix.h).some]
    /\ pc' = IF RadixPop(radix.h).some THEN "radix" ELSE "radix_done"
    /\ UNCHANGED <<gridvars, textvars, tile, request, line>>

RadixNext == RadixDoPush \/ RadixDoPop \/ RadixIntoIter \/ RadixIterNext

SpecRadix == RadixInit /\ [][RadixNext]_vars

\* How often priority p occurs in the sequence s.
Occurrences(s, p) == Cardinality({i \in 1 .. Len(s) : s[i] = p})

\* C24: a new heap has length 0, and when pushes (each of a priority at
\* least the last popped one) and pops have been interleaved in any way, the
\* drain of the heap ends without a panic having yielded exactly the items
\* that remained, in non-decreasing priority order.
C24_DrainSorted ==
    /\ (pc = "radix" /\ radix.h = RadixNew(radix.h.top)) => radix.h.len = 0
    /\ pc = "radix_done" =>
           /\ ~radix.h.panic
           /\ \A i \in 1 .. Len(radix.drained) : \A j \in i .. Len(radix.drained) :
                  radix.drained[i] <= radix.drained[j]
           /\ \A p \in RadixPriorities :
                  Occurrences(radix.drained, p) = radix.remaining[p]

\* C25: after every push, pop, update_priority and update_priority_if_less
\* the positions lookup and the heap agree: the entry at index i of the heap
\* has positions[key] = i, and a key with no entry in the heap has the
\* absent sentinel.
C25_PositionsAgree ==
    /\ \A i \in 1 .. Len(heap) : positions[heap[i].key] = i - 1
    /\ \A k \in Keys :
           (\A i \in 1 .. Len(heap) : heap[i].key # k) => positions[k] = Absent

\* A pop has just returned, two or more entries remain, some key is in the
\* queue and some key is not.
C25_Witness ==
    /\ pc = "queue"
    /\ lastPop # None
    /\ Len(heap) >= 2
    /\ positions[heap[2].key] = 1
    /\ \E k \in PQKeys : positions[k] = Absent

\* ------------------------------------------------------ proposal commit
\* The proposals props[i], props[i + 1], ... are each answered as for a
\* cell that is queued or not at the given priority: a proposal is accepted
\* exactly when the cell is not queued or the distance is strictly less
\* than the priority, and an accepted one leaves the cell queued at its
\* distance.
RECURSIVE AnsweredInTurn(_, _, _, _)
AnsweredInTurn(props, i, queued, priority) ==
    IF i > Len(props) THEN TRUE
    ELSE /\ props[i].accepted = (~queued \/ props[i].distance < priority)
         /\ AnsweredInTurn(props, i + 1, TRUE,
                           IF props[i].accepted THEN props[i].distance ELSE priority)

\* The accepted ones among the proposals, in order.
Accepted(props) ==
    LET IsAccepted(x) == x.accepted
    IN  SelectSeq(props, IsAccepted)

\* The priority of cell k in the queue q (k is queued).
PriorityOf(q, k) == At(q.heap, q.positions[k]).item

\* C26: a step that relaxes cell T commits its proposals one by one: a
\* proposal inserts T with priority = distance when T is not queued, lowers
\* T's priority to the distance when that is strictly less than the
\* recorded one, and the node record is overwritten in both cases; a
\* proposal whose distance is not strictly less changes neither the
\* priority nor the node record of T.
C26_ProposalCommit ==
    [][pc = "relax" =>
          /\ \A i \in 1 .. Len(proposals') : proposals'[i].ix = Head(pending)
          /\ AnsweredInTurn(proposals', 1, positions[Head(pending)] # Absent,
                            IF positions[Head(pending)] # Absent
                            THEN PriorityOf(Queue, Head(pending)) ELSE 0)
          /\ IF Accepted(proposals') = <<>>
             THEN /\ explored'[Head(pending)] = explored[Head(pending)]
                  /\ positions'[Head(pending)] = Absent <=> positions[Head(pending)] = Absent
                  /\ positions[Head(pending)] # Absent =>
                         PriorityOf([heap |-> heap', positions |-> positions'], Head(pending))
                             = PriorityOf(Queue, Head(pending))
             ELSE /\ positions'[Head(pending)] # Absent
                  /\ PriorityOf([heap |-> heap', positions |-> positions'], Head(pending))
                         = Accepted(proposals')[Len(Accepted(proposals'))].distance
                  /\ explored'[Head(pending)].distance
                         = Accepted(proposals')[Len(Accepted(proposals'))].distance
                  /\ explored'[Head(pending)].reference = commits'[Len(commits')].reference
                  /\ Len(commits') = Len(Accepted(proposals'))
    ]_vars

\* A step made two proposals for a queued cell: the first lowered its
\* priority (the cell had been pushed by an earlier step) or inserted it,
\* and the second, not strictly less, was dropped.
C26_Witness ==
    /\ Len(proposals) >= 2
    /\ proposals[1].accepted
    /\ ~proposals[2].accepted

\* ============================================ update_node on given states
\* update_node is applied to search states drawn from a bounded set: the
\* cell RelaxedCell has not been explored, each of its neighbours is
\* unexplored, explored and unreachable, or explored and reachable with
\* one of the diagonal cells as its reference, and the cell itself is
\* either untouched or queued with a record an earlier proposal left.
RelaxedCell == FromGrid(1, 1)

\* The diagonal cells: the start of the search and three cells that refer
\* to it.
DiagonalCells == {FromGrid(0, 0), FromGrid(0, 2), FromGrid(2, 0), FromGrid(2, 2)}

\* The node of a diagonal cell: explored and reachable, two cells from the
\* start (the start itself: distance 0, no reference).
DiagonalNode(k) ==
    IF k = FromGrid(0, 0)
    THEN [height |-> 50 * L2Scale, reference |-> None, distance |-> 0,
          reachable |-> TRUE, explored |-> TRUE]
    ELSE [height |-> 30 * L2Scale, reference |-> FromGrid(0, 0),
          distance |-> L2Distance(k, FromGrid(0, 0)) * CalmQuery.cell_size,
          reachable |-> TRUE, explored |-> TRUE]

\* Cumulative distances of an explored reachable neighbour.
NeighborDistances == {2 * L2Scale * CalmQuery.cell_size, 3 * L2Scale * CalmQuery.cell_size}

\* The references an explored reachable neighbour n may have: the start
\* and the diagonal cells next to n.
NeighborReferences(n) == {FromGrid(0, 0)} \cup {k \in DiagonalCells : Dist2(k, n) = 1}

\* The nodes the neighbour n of the cell may have.
NeighborNodes(n) ==
    {NewNode,
     [height |-> 0, reference |-> FromGrid(0, 0),
      distance |-> 3 * L2Scale * CalmQuery.cell_size,
      reachable |-> FALSE, explored |-> TRUE]}
    \cup {[height |-> 25 * L2Scale, reference |-> r, distance |-> d,
           reachable |-> TRUE, explored |-> TRUE] :
              r \in NeighborReferences(n), d \in NeighborDistances}

\* The nodes the cell itself may have: untouched, or written by an earlier
\* proposal that queued it.
QueuedNodes ==
    {[height |-> 10 * L2Scale, reference |-> FromGrid(0, 0),
      distance |-> d, reachable |-> TRUE, explored |-> FALSE] :
         d \in {2 * L2Scale * CalmQuery.cell_size, 6 * L2Scale * CalmQuery.cell_size}}
    \cup {[height |-> 10 * L2Scale, reference |-> FromGrid(2, 2),
           distance |-> 6 * L2Scale * CalmQuery.cell_size,
           reachable |-> TRUE, explored |-> FALSE]}

\* The queries: calm air and wind stronger than the trim speed.
UpdateQueries == {q \in Queries : q.safety_margin = 0 /\ q.start_height # None}

\* The neighbours of the cell as a set.
NeighborSet(ix) == {GetNeighborIndices(ix)[i] : i \in 1 .. Len(GetNeighborIndices(ix))}

\* The loop of search is about to call update_node for RelaxedCell: a
\* neighbour has been explored, the cell is queued only if a reachable
\* neighbour can have proposed it, and in calm air it is queued once a
\* reachable neighbour is explored (in wind the glide from the reference
\* can be infinite, and then no proposal was made).
UpdateInit ==
    /\ heights = [k \in Keys |-> 0]
    /\ query \in UpdateQueries
    /\ start = FromGrid(0, 0)
    /\ \E n1 \in NeighborNodes(GetNeighborIndices(RelaxedCell)[1]),
          n2 \in NeighborNodes(GetNeighborIndices(RelaxedCell)[2]),
          n3 \in NeighborNodes(GetNeighborIndices(RelaxedCell)[3]),
          n4 \in NeighborNodes(GetNeighborIndices(RelaxedCell)[4]),
          t \in QueuedNodes \cup {NewNode} :
       LET f == [n \in NeighborSet(RelaxedCell) |->
                    IF n = GetNeighborIndices(RelaxedCell)[1] THEN n1
                    ELSE IF n = GetNeighborIndices(RelaxedCell)[2] THEN n2
                    ELSE IF n = GetNeighborIndices(RelaxedCell)[3] THEN n3
                    ELSE n4]
       IN  /\ {n \in NeighborSet(RelaxedCell) : f[n].explored} # {}
           /\ t # NewNode => {n \in NeighborSet(RelaxedCell) : f[n].reachable} # {}
           /\ (t = NewNode /\ query.wind_speed < query.trim_speed) =>
                  {n \in NeighborSet(RelaxedCell) : f[n].reachable} = {}
           /\ explored = [k \in Keys |->
                             IF k = RelaxedCell THEN t
                             ELSE IF k \in NeighborSet(RelaxedCell) THEN f[k]
                             ELSE IF k \in DiagonalCells THEN DiagonalNode(k)
                             ELSE NewNode]
           /\ heap = IF t = NewNode THEN <<>>
                     ELSE <<[key |-> RelaxedCell, item |-> t.distance]>>
           /\ positions = [k \in Keys |->
                              IF k = RelaxedCell /\ t # NewNode THEN 0 ELSE Absent]
           /\ pushCount = [k \in Keys |->
                              IF k = RelaxedCell /\ t # NewNode THEN 1 ELSE 0]
           /\ current = CHOOSE n \in NeighborSet(RelaxedCell) : f[n].explored
    /\ pending = <<RelaxedCell>>
    /\ pc = "relax"
    /\ prevPop = None
    /\ lastPop = None
    /\ commits = <<>>
    /\ proposals = <<>>
    /\ popped = <<>>
    /\ result = <<>>
    /\ iterator = <<>>
    /\ yielded = <<>>
    /\ tile = <<>>
    /\ request = <<>>
    /\ radix = <<>>
    /\ line = <<>>

\* The one step is the loop body of search for the cell.
SpecUpdateNode == UpdateInit /\ [][SearchRelax]_vars

\* The explored neighbours of the relaxed cell and the reachable ones among
\* them; the step does not change their nodes.
RelaxedExplored == ExploredNeighbors(State, RelaxedCell)
RelaxedReachable == ReachableOf(State, RelaxedExplored)
\* The step of SpecUpdateNode has been taken.
Relaxed == pc = "pop" /\ pending = <<>> /\ ~explored[RelaxedCell].explored

ClosestReachable ==
    {RelaxedReachable[i] : i \in 1 .. Len(RelaxedReachable)}
        \ {RelaxedReachable[i] : i \in
              {j \in 1 .. Len(RelaxedReachable) :
                  \E k \in 1 .. Len(RelaxedReachable) :
                      explored[RelaxedReachable[k]].distance
                          < explored[RelaxedReachable[j]].distance}}

\* The cells a proposal via the neighbour n is computed from: n and the
\* reference of n.
ViaOf(n) == {n, explored[n].reference} \ {None}

\* Every proposal of the step was made via a closest reachable neighbour.
OnlyViaClosest ==
    \A i \in 1 .. Len(proposals) : \E n \in ClosestReachable : proposals[i].via \in ViaOf(n)

\* The cell was relaxed with four reachable explored neighbours that have
\* four distinct references.
RelaxedFourDistinct ==
    /\ Relaxed
    /\ Len(RelaxedReachable) = 4
    /\ ReferenceSetLen(State, RelaxedReachable) = 4

ReachableSet == {RelaxedReachable[i] : i \in 1 .. Len(RelaxedReachable)}

\* Among three reachable neighbours of which two share a reference: the
\* neighbours whose reference no other one has.
Unpaired ==
    {n \in ReachableSet :
        \A m \in ReachableSet \ {n} : explored[m].reference # explored[n].reference}

\* Some proposal of the step was made via the neighbour n.
ProposedVia(n) == \E i \in 1 .. Len(proposals) : proposals[i].via \in ViaOf(n)

RelaxTarget == Head(pending)
TargetExplored == ExploredNeighbors(State, RelaxTarget)
TargetReachable == ReachableOf(State, TargetExplored)

\* The step calls update_node for the cell.
Relaxing == pc = "relax" /\ ~explored[RelaxTarget].explored

\* The step calls update_one_neighbor once, unforced: one explored
\* neighbour is reachable.
OneReachable == Relaxing /\ Len(TargetReachable) = 1

\* The step calls update_two_with_different_references: two explored
\* neighbours, both reachable, whose reference paths do not intersect.
TwoDifferent ==
    /\ Relaxing
    /\ Len(TargetExplored) = 2
    /\ Len(TargetReachable) = 2
    /\ RefPathsIntersection(TargetExplored[1], explored[TargetExplored[1]].reference,
                            TargetExplored[2], explored[TargetExplored[2]].reference) = None

\* The neighbour of the first update_one_neighbor call of the step.
FirstNeighbor == TargetReachable[1]

\* That call tries the reference of the neighbour.
TriesReference(forced) ==
    /\ explored[FirstNeighbor].reference # None
    /\ (query.wind_speed >= query.trim_speed \/ forced)

\* The call returns at once: the cell is queued with the tried reference.
HoldsTriedReference ==
    /\ ContainsKey(Queue, RelaxTarget)
    /\ explored[RelaxTarget].reference = explored[FirstNeighbor].reference

\* The reference the rule selects for the call.
SelectedReference(forced) ==
    IF TriesReference(forced)
       /\ ~IsLineIntersecting(explored, explored[FirstNeighbor].reference, RelaxTarget)
    THEN explored[FirstNeighbor].reference
    ELSE FirstNeighbor

\* What the first call of the step does when it is not ended by the cell
\* holding the tried reference: a proposal from the selected reference,
\* unless the glide from it is infinite.
SelectsReference(forced) ==
    (TriesReference(forced) => ~HoldsTriedReference) =>
        IF GetEffectiveGlideRatioFromTo(RelaxTarget, SelectedReference(forced)).infinite
        THEN forced \/ proposals' = <<>>
        ELSE /\ Len(proposals') >= 1
             /\ proposals'[1].ix = RelaxTarget
             /\ proposals'[1].via = SelectedReference(forced)
             /\ forced \/ Len(proposals') = 1

\* C31: update_one_neighbor computes the proposal from the neighbour n,
\* unless n has a reference and the wind is at least the trim speed or the
\* intersection check is forced: then from n.reference, and from n again
\* when the line from n.reference to the cell intersects the terrain (the
\* call that returns because the cell is queued with n.reference aside).
C31_ReferenceSelection ==
    [][/\ OneReachable => SelectsReference(FALSE)
       /\ TwoDifferent => SelectsReference(TRUE)]_vars

\* A step proposed the cell from its one reachable neighbour n after the
\* line from n.reference intersected the terrain, in wind.
C31_Witness ==
    /\ Len(proposals) = 1
    /\ query.wind_speed >= query.trim_speed
    /\ LET t == proposals[1].ix
           r == ReachableOf(State, ExploredNeighbors(State, t))
       IN  /\ Len(r) = 1
           /\ explored[r[1]].reference # None
           /\ IsLineIntersecting(explored, explored[r[1]].reference, t)
           /\ proposals[1].via = r[1]

\* ============================================ straight-line collapsing
\* The commit c of the last step was made by update_one_neighbor: the cell
\* has one reachable explored neighbour, or two whose reference paths do
\* not intersect.
ByUpdateOneNeighbor(c) ==
    LET r == ReachableOf(State, ExploredNeighbors(State, c.ix))
    IN  /\ c.via # None
        /\ \/ Len(r) = 1
           \/ /\ Len(r) = 2
              /\ RefPathsIntersection(r[1], explored[r[1]].reference,
                                      r[2], explored[r[2]].reference) = None

\* C32: the reference stored by a proposal computed from the chosen
\* reference R is, when R shares a row or a column with the cell, the
\* farthest ancestor reached from R along references that are straight
\* with the cell, and it is straight with the cell too; when R is not
\* straight with the cell it is R.
C32_StraightLineCollapse ==
    \A i \in 1 .. Len(commits) :
        ByUpdateOneNeighbor(commits[i]) =>
            IF IsStraight(commits[i].via, commits[i].ix)
            THEN /\ commits[i].reference
                        = GetStraightLineRef(explored, commits[i].ix, commits[i].via)
                 /\ IsStraight(commits[i].reference, commits[i].ix)
            ELSE commits[i].reference = commits[i].via

\* ===================================================== infeasible moves
\* The cell of the last update_node call of the for loop over the
\* neighbours of the popped cell (None before the first).
LastRelaxed ==
    IF current = None \/ Len(pending) >= Len(GetNeighborIndices(current)) THEN None
    ELSE GetNeighborIndices(current)[Len(GetNeighborIndices(current)) - Len(pending)]

\* C33: no proposal is computed over an edge whose effective glide ratio is
\* infinite, and a step whose one update_one_neighbor call selects such an
\* edge leaves the queue and the node records as they were and goes on.
C33_InfeasibleSkipped ==
    [][/\ \A i \in 1 .. Len(proposals') :
              proposals'[i].via # None =>
                  ~GetEffectiveGlideRatioFromTo(proposals'[i].ix, proposals'[i].via).infinite
       /\ (OneReachable
           /\ GetEffectiveGlideRatioFromTo(RelaxTarget, SelectedReference(FALSE)).infinite) =>
              /\ UNCHANGED <<explored, heap, positions, pushCount>>
              /\ proposals' = <<>>
              /\ pc' \in {"relax", "pop"}]_vars

\* The last step relaxed a cell whose one reachable neighbour offers only
\* an infeasible move (neither from its reference nor from itself): the
\* cell was not queued and its node is untouched.
C33_Witness ==
    /\ LastRelaxed # None
    /\ pc \in {"relax", "pop"}
    /\ ~explored[LastRelaxed].explored
    /\ LET r == ReachableOf(State, ExploredNeighbors(State, LastRelaxed))
       IN  /\ Len(r) = 1
           /\ explored[r[1]].reference # None
           /\ GetEffectiveGlideRatioFromTo(LastRelaxed, explored[r[1]].reference).infinite
           /\ GetEffectiveGlideRatioFromTo(LastRelaxed, r[1]).infinite
    /\ proposals = <<>>
    /\ positions[LastRelaxed] = Absent
    /\ explored[LastRelaxed] = NewNode

\* ------------------------------ terrain clearance check (SpecLine)
\* The queries of a clearance check: calm air without a safety margin, wind
\* stronger than the trim speed, and a safety margin from a start distance
\* of zero, one, two or three cells on.
LineQueries ==
    {CalmQuery, [CalmQuery EXCEPT !.wind_speed = 12, !.wind_direction = 0]}
    \cup {[CalmQuery EXCEPT !.safety_margin = 5,
                            !.start_distance = c * CalmQuery.cell_size] : c \in 0 .. 3}

\* The nodes a line is drawn from: the start (distance 0) or a cell one
\* cell away from it, at three heights.
LineNodes ==
    {[height |-> h * L2Scale, reference |-> None,
      distance |-> c * L2Scale * CalmQuery.cell_size,
      reachable |-> TRUE, explored |-> TRUE] : h \in {22, 40, 72}, c \in 0 .. 1}

\* is_line_intersecting is about to be called for the node to of cell
\* line[1] and the cell line[2]; to is above its ground and margin.
LineInit ==
    /\ heights \in Grids
    /\ query \in LineQueries
    /\ start = FromGrid(0, 0)
    /\ \E to_ix \in Keys, to \in LineNodes :
          /\ explored = [k \in Keys |-> IF k = to_ix THEN to ELSE NewNode]
          /\ line \in {<<to_ix, ix>> : ix \in Keys \ {to_ix}}
    /\ GridHeight(line[1]) + GetSafetyMarginAtDistance(explored[line[1]].distance)
           < explored[line[1]].height
    /\ current = line[1]
    /\ pending = <<>>
    /\ heap = <<>>
    /\ positions = [k \in Keys |-> Absent]
    /\ pushCount = [k \in Keys |-> 0]
    /\ pc = "line"
    /\ prevPop = None
    /\ lastPop = None
    /\ commits = <<>>
    /\ proposals = <<>>
    /\ popped = <<>>
    /\ result = <<>>
    /\ iterator = <<>>
    /\ yielded = <<>>
    /\ tile = <<>>
    /\ request = <<>>
    /\ radix = <<>>

\* The call of is_line_intersecting; its answer is appended to line.
LineCheck ==
    /\ pc = "line"
    /\ Len(line) = 2
    /\ line' = Append(line, IsLineIntersecting(explored, line[1], line[2]))
    /\ pc' = "done"
    /\ UNCHANGED <<gridvars, textvars, tile, request, radix>>

SpecLine == LineInit /\ [][LineCheck]_vars

\* The call has answered.
LineChecked == Len(line) = 3
\* The number of samples, the length of the segment and the cumulative
\* distance at its two ends.
LineSamples == CeilSqrt(Dist2(line[1], line[2]))
LineDistance == L2Distance(line[1], line[2]) * query.cell_size
LineFrom == explored[line[1]].distance
LineTo == LineFrom + LineDistance
\* The glide ratio of the segment, and the arrival altitude, the ground
\* and the cumulative distance at its i-th sample.
LineGlide == GetEffectiveGlideRatioFromTo(line[2], line[1])
LineAltitude(i) ==
    Linspace(explored[line[1]].height,
             explored[line[1]].height - HeightLoss(LineDistance, LineGlide),
             LineSamples, i)
LineGround(i) ==
    GridHeight(FromGrid(Linspace(RowOf(line[1]), RowOf(line[2]), LineSamples, i),
                        Linspace(ColOf(line[1]), ColOf(line[2]), LineSamples, i)))
LineCumulative(i) == Linspace(LineFrom, LineTo, LineSamples, i)
\* Some sample arrives below the ground plus the margin at its cumulative
\* distance.
BelowGroundPlusMargin ==
    \E i \in 0 .. (LineSamples - 1) :
        LineAltitude(i) < LineGround(i) + GetSafetyMarginAtDistance(LineCumulative(i))

\* C34: the clearance check answers true exactly when the effective glide
\* ratio is infinite or some sample on the segment arrives below the ground
\* height plus the margin of that sample (none before the start distance,
\* the safety margin from it on), whether the segment ends before the
\* start distance, straddles it or lies past it, and for one sample too.
C34_IntersectsExactly ==
    LineChecked => (line[3] <=> (LineGlide.infinite \/ BelowGroundPlusMargin))

\* C35: at every point of the search each queued cell has a node record
\* whose distance is the cell's priority in the queue, also after a
\* proposal rejected because its distance was not smaller and after the
\* early return for a cell that already holds the tried reference.
C35_PriorityIsNodeDistance ==
    \A k \in Keys :
        ContainsKey(Queue, k) => PriorityOf(Queue, k) = explored[k].distance
\* A relaxation has just made a proposal that was rejected for a cell that
\* stays queued.
C35_Witness ==
    \E i \in 1 .. Len(proposals) :
        /\ ~proposals[i].accepted
        /\ ContainsKey(Queue, proposals[i].ix)
        /\ proposals[i].distance > explored[proposals[i].ix].distance

\* The search from its start on every grid, and the search resumed where an
\* interior cell with explored neighbours is about to be relaxed.
RequeueInit == Init \/ UpdateInit
SpecRequeue == RequeueInit /\ [][Next]_vars

\* C36: a cell that has been popped is never pushed into the queue again
\* and its explored flag is never reset, whatever the grid and the query,
\* also when its node says unreachable with distance 0.
C36_ExploredNeverRequeued ==
    [][\A k \in Keys :
          explored[k].explored =>
              /\ explored'[k].explored
              /\ pushCount'[k] = pushCount[k]
              /\ ~ContainsKey(Queue', k)]_vars
\* A cell recorded unreachable with distance 0 has been popped and the
\* loop over its neighbours has passed one of them.
C36_Witness ==
    /\ pc = "relax"
    /\ current # start
    /\ explored[current].explored
    /\ ~explored[current].reachable
    /\ explored[current].distance = 0
    /\ Len(pending) < Len(GetNeighborIndices(current))

\* C37: the reference stored on a node is always a cell whose node is
\* reachable, so after the crop to the bounding box of the reachable cells
\* every translated reference lies inside the cropped grid and names a
\* node that is present there.
C37_ReferenceReachable ==
    /\ \A k \in Keys :
          explored[k].reference # None => explored[explored[k].reference].reachable
    /\ pc = "reindexed" =>
          \A i \in DOMAIN result.explored :
              result.explored[i].reference # NoGridIx =>
                  /\ result.explored[i].reference.pos[1] < result.shape[1]
                  /\ result.explored[i].reference.pos[2] < result.shape[2]
                  /\ result.explored[i].reference.ix \in DOMAIN result.explored
                  /\ result.explored[result.explored[i].reference.ix].explored
                  /\ result.explored[result.explored[i].reference.ix].ix
                     = result.explored[i].reference
\* A crop smaller than the grid, with an origin other than (0, 0), kept an
\* unreachable node that has a reference.
C37_Witness ==
    /\ pc = "reindexed"
    /\ result.origin[1] + result.origin[2] > 0
    /\ \E i \in DOMAIN result.explored :
          /\ result.explored[i].explored
          /\ ~result.explored[i].reachable
          /\ result.explored[i].reference # NoGridIx

\* ------------------------------- rounds of one query (SpecRounds)
\* The tries of the queries whose rounds are followed: of at most MaxWords
\* words one letter shorter than MaxWordLen, and the trie of the test.
RoundWordSets ==
    {S \in SUBSET SmallWords(MaxWordLen - 1) :
         Cardinality(S) >= 1 /\ Cardinality(S) <= MaxWords}
        \cup {TestWords}

\* A trie is built and find_with_max_edit_distance called on it with the
\* largest budget: its rounds are those of every smaller budget, followed
\* by the later ones.
RoundsInit ==
    /\ \E words \in RoundWordSets, word \in QueryWords,
          continuations \in BOOLEAN, reverse \in BOOLEAN :
           iterator = FindWithMaxEditDistance(BuildTrie(words, reverse), word,
                                              MaxDistance, continuations)
    /\ yielded = <<>>
    /\ pc = "text"
    /\ heap = <<>>
    /\ positions = [k \in Keys |-> Absent]
    /\ prevPop = None
    /\ lastPop = None
    /\ explored = <<>>
    /\ heights = <<>>
    /\ query = <<>>
    /\ start = None
    /\ current = None
    /\ pending = <<>>
    /\ commits = <<>>
    /\ proposals = <<>>
    /\ popped = <<>>
    /\ result = <<>>
    /\ pushCount = <<>>
    /\ tile = <<>>
    /\ request = <<>>
    /\ radix = <<>>
    /\ line = <<>>

SpecRounds == RoundsInit /\ [][TextNext]_vars

\* C38: over all the rounds of one query (budgets 0 up to max_distance, the
\* memo carried from round to round) no stored key is yielded more than
\* once, also when edit scripts of several lengths lead to it.
C38_NoKeyYieldedTwice ==
    pc \in {"text", "text_done"} =>
        \A i \in 1 .. Len(yielded) : \A j \in 1 .. Len(yielded) :
            i # j => yielded[i].key # yielded[j].key
\* The query is over, and a key was yielded at least two rounds before the
\* last one: longer edit scripts led to it again.
C38_Witness ==
    /\ pc = "text_done"
    /\ \E i \in 1 .. Len(yielded) : yielded[i].distance + 2 <= iterator.max_distance
    /\ Len(yielded) >= 2

\* ------------------------ the positions map at u16::MAX queued cells (SpecDense)
\* The number of cells queued at first: u16::MAX, at the heap indices 0 to
\* u16::MAX - 1.
DenseLen == Absent
\* The cells of a grid of more than u16::MAX cells that take part: those
\* queued at first and two more.
DenseKeys == 0 .. (Absent + 1)
\* The cells that are pushed: the two that are not queued at first.
DenseFresh == DenseLen .. (Absent + 1)

\* A search on a grid of more than u16::MAX cells has DenseLen cells in
\* its queue: cell k with priority k at heap index k.
DenseInit ==
    /\ heap = [i \in 1 .. DenseLen |-> [key |-> i - 1, item |-> i - 1]]
    /\ positions = [k \in DenseKeys |-> IF k < DenseLen THEN k ELSE Absent]
    /\ popped = <<>>
    /\ pc = "dense"
    /\ prevPop = None
    /\ lastPop = None
    /\ explored = <<>>
    /\ heights = <<>>
    /\ query = <<>>
    /\ start = None
    /\ current = None
    /\ pending = <<>>
    /\ commits = <<>>
    /\ proposals = <<>>
    /\ result = <<>>
    /\ pushCount = <<>>
    /\ iterator = <<>>
    /\ yielded = <<>>
    /\ tile = <<>>
    /\ request = <<>>
    /\ radix = <<>>
    /\ line = <<>>

\* The cells popped so far: search marks them explored and does not relax
\* them again.
DensePopped == {popped[i].key : i \in 1 .. Len(popped)}

\* put_or_update on the queue for a cell that is not explored: a push when
\* contains_key says the cell is not queued, update_priority_if_less when
\* it says it is.
DensePut(key, distance) ==
    /\ pc = "dense"
    /\ Len(heap) <= Absent + 1
    /\ key \notin DensePopped
    /\ heap' = (IF ContainsKey(Queue, key)
                THEN UpdatePriorityIfLess(Queue, key, distance).q
                ELSE Push(Queue, key, distance)).heap
    /\ positions' = (IF ContainsKey(Queue, key)
                     THEN UpdatePriorityIfLess(Queue, key, distance).q
                     ELSE Push(Queue, key, distance)).positions
    /\ UNCHANGED <<prevPop, lastPop, popped, searchvars>>

\* search: queue.pop() returned Some(first).
DensePop ==
    /\ pc = "dense"
    /\ Len(heap) > Absent
    /\ heap' = Pop(Queue).q.heap
    /\ positions' = Pop(Queue).q.positions
    /\ popped' = Append(popped, Pop(Queue).element)
    /\ UNCHANGED <<prevPop, lastPop, explored, heights, query, start, pc, current,
                   pending, commits, proposals, result, pushCount, iterator, yielded,
                   tile, request, radix, line>>

DenseNext ==
    \/ \E key \in DenseFresh, distance \in {0, PosModulus} : DensePut(key, distance)
    \/ DensePop

SpecDense == DenseInit /\ [][DenseNext]_vars

\* The cells that have an entry in the heap.
DenseQueued == {heap[i].key : i \in 1 .. Len(heap)}

\* C39: with the dense positions map the heap index stored for a queued
\* cell is never truncated and never the absent sentinel u16::MAX: however
\* many cells are queued, get(key) is the index of the cell's entry in the
\* heap and contains_key is true exactly for the queued cells.
C39_DenseIndexExact ==
    pc = "dense" =>
        /\ \A i \in 1 .. Len(heap) : positions[heap[i].key] = i - 1
        /\ {k \in DenseKeys : ContainsKey(Queue, k)} = DenseQueued

\* ------------------- radix heap with update_priority_if_less (SpecRadixUpdate)
\* Vec::swap_remove(slot) on a bucket: the last node takes the slot of the
\* removed one.
SwapRemove(bucket, slot) ==
    IF slot + 1 = Len(bucket) THEN SubSeq(bucket, 1, Len(bucket) - 1)
    ELSE [i \in 1 .. (Len(bucket) - 1) |->
             IF i = slot + 1 THEN bucket[Len(bucket)] ELSE bucket[i]]

\* update_priority_if_less, the move of the node of key from the bucket of
\* its old radix distance to that of the new one, without the new position
\* of the node that swap_remove puts into its slot.
RadixMoveForgetLast(h, key, ix, old_rd, new_rd) ==
    IF ix[2] >= Len(h.buckets[old_rd]) THEN [h EXCEPT !.panic = TRUE]
    ELSE [h EXCEPT
            !.buckets = [b \in 0 .. RadixBits |->
                            IF b = old_rd THEN SwapRemove(h.buckets[old_rd], ix[2])
                            ELSE IF b = new_rd
                            THEN Append(h.buckets[new_rd], h.buckets[old_rd][ix[2] + 1])
                            ELSE h.buckets[b]],
            !.positions[key] = <<new_rd, Len(h.buckets[new_rd])>>]

\* update_priority_if_less, the move of the node of key (at position ix)
\* from the bucket of its old radix distance to that of the new one: the
\* last node of the old bucket is given the position ix when the bucket
\* holds more than one node, swap_remove(ix.1) takes the node out (a panic
\* when the slot is out of bounds) and the node is pushed on the new bucket.
RadixMove(h, key, ix, old_rd, new_rd) ==
    IF ix[2] >= Len(h.buckets[old_rd]) THEN [h EXCEPT !.panic = TRUE]
    ELSE [h EXCEPT
            !.buckets = [b \in 0 .. RadixBits |->
                            IF b = old_rd THEN SwapRemove(h.buckets[old_rd], ix[2])
                            ELSE IF b = new_rd
                            THEN Append(h.buckets[new_rd], h.buckets[old_rd][ix[2] + 1])
                            ELSE h.buckets[b]],
            !.positions = [k \in RadixKeys |->
                              IF k = key THEN <<new_rd, Len(h.buckets[new_rd])>>
                              ELSE IF /\ Len(h.buckets[old_rd]) > 1
                                      /\ k = h.buckets[old_rd][Len(h.buckets[old_rd])].key
                              THEN ix
                              ELSE h.positions[k]]]

\* RadixHeap::update_priority_if_less: the assert panics for a priority
\* below top and the expect for a key without a position; a priority that
\* is not smaller changes nothing; otherwise the node gets the priority and
\* changes bucket when its radix distance to top changes.
RadixUpdatePriorityIfLess(h, key, priority) ==
    IF priority < h.top \/ h.positions[key] = <<>> THEN [h EXCEPT !.panic = TRUE]
    ELSE IF h.buckets[h.positions[key][1]][h.positions[key][2] + 1].priority <= priority
    THEN h
    ELSE IF RadixDistance(h.buckets[h.positions[key][1]][h.positions[key][2] + 1].priority,
                          h.top)
            = RadixDistance(priority, h.top)
    THEN [h EXCEPT !.buckets[h.positions[key][1]][h.positions[key][2] + 1].priority =
                       priority]
    ELSE RadixMove(
             [h EXCEPT !.buckets[h.positions[key][1]][h.positions[key][2] + 1].priority =
                           priority],
             key, h.positions[key],
             RadixDistance(h.buckets[h.positions[key][1]][h.positions[key][2] + 1].priority,
                           h.top),
             RadixDistance(priority, h.top))

\* A heap has been made with RadixHeap::new; op is the last operation,
\* "swapped" for an update that changed the position of another key.
RadixUpdateInit ==
    /\ \E top \in RadixPriorities :
           radix = [h |-> RadixNew(top), op |-> "new"]
    /\ pc = "radix"
    /\ tile = <<>>
    /\ request = <<>>
    /\ iterator = <<>>
    /\ yielded = <<>>
    /\ heap = <<>>
    /\ positions = [k \in Keys |-> Absent]
    /\ prevPop = None
    /\ lastPop = None
    /\ explored = <<>>
    /\ heights = <<>>
    /\ query = <<>>
    /\ start = None
    /\ current = None
    /\ pending = <<>>
    /\ commits = <<>>
    /\ proposals = <<>>
    /\ popped = <<>>
    /\ result = <<>>
    /\ pushCount = <<>>
    /\ line = <<>>

\* The caller pushes a key the heap does not hold; the item is the key.
RadixPushAbsent ==
    /\ pc = "radix"
    /\ ~radix.h.panic
    /\ radix.h.len < MaxRadixLen
    /\ \E key \in RadixKeys, priority \in RadixPriorities :
           /\ radix.h.positions[key] = <<>>
           /\ radix' = [h |-> RadixPush(radix.h, key, key, priority), op |-> "push"]
    /\ UNCHANGED <<pc, gridvars, textvars, tile, request, line>>

\* The caller pops.
RadixPopAny ==
    /\ pc = "radix"
    /\ ~radix.h.panic
    /\ radix' = [h |-> RadixPop(radix.h).h, op |-> "pop"]
    /\ UNCHANGED <<pc, gridvars, textvars, tile, request, line>>

\* The priority of the node positions names for key.
RadixPriorityOf(h, key) == h.buckets[h.positions[key][1]][h.positions[key][2] + 1].priority

\* The caller calls update_priority_if_less for a key the heap holds, with
\* a priority up to the one of the key (a larger one is refused like an
\* equal one).
RadixUpdate ==
    /\ pc = "radix"
    /\ ~radix.h.panic
    /\ \E key \in RadixKeys, priority \in RadixPriorities :
           /\ radix.h.positions[key] # <<>>
           /\ priority <= RadixPriorityOf(radix.h, key)
           /\ LET updated == RadixUpdatePriorityIfLess(radix.h, key, priority)
              IN  radix' = [h |-> updated,
                            op |-> IF \E k \in RadixKeys \ {key} :
                                          updated.positions[k] # radix.h.positions[k]
                                   THEN "swapped" ELSE "update"]
    /\ UNCHANGED <<pc, gridvars, textvars, tile, request, line>>

RadixUpdateNext == RadixPushAbsent \/ RadixPopAny \/ RadixUpdate

SpecRadixUpdate == RadixUpdateInit /\ [][RadixUpdateNext]_vars

\* The bucket and slot pairs that hold a node.
RadixSlots(h) ==
    {s \in (0 .. RadixBits) \X (1 .. MaxRadixLen) : s[2] <= Len(h.buckets[s[1]])}

\* C40: after any pushes (of keys the heap does not hold), pops and
\* update_priority_if_less calls that did not panic, top is at most the
\* priority of every node the heap holds, len is the number of nodes in
\* all the buckets, positions gives for the key of every node the bucket
\* and the slot that hold it, and top (which constrain moves to one below
\* the smallest priority of a bucket) is not below the smallest priority
\* there is.
C40_RadixInvariant ==
    (pc = "radix" /\ ~radix.h.panic) =>
        /\ \A s \in RadixSlots(radix.h) :
               /\ radix.h.top <= radix.h.buckets[s[1]][s[2]].priority
               /\ radix.h.positions[radix.h.buckets[s[1]][s[2]].key] = <<s[1], s[2] - 1>>
        /\ radix.h.len = Cardinality(RadixSlots(radix.h))
        /\ radix.h.top \in RadixPriorities
\* update_priority_if_less has just moved a node to another bucket and the
\* last node of the bucket it left into its slot.
C40_Witness ==
    /\ pc = "radix"
    /\ ~radix.h.panic
    /\ radix.op = "swapped"
    /\ radix.h.len >= 2

====
